---- MODULE Spec2Model ----
(***************************************************************************)
(* Model of the invoice import pipeline of the upload component            *)
(* (UploadStore in src/src/components/UploadPage/InvoiceViewer.tsx):       *)
(*   - the Row Validator, validateInvoiceData, as a pure operator over     *)
(*     JavaScript values (texts are sequences of one-character strings);   *)
(*   - the Batch Importer, processInvoiceFile, and its caller              *)
(*     handleFileSelect, as a state machine over the external store.       *)
(***************************************************************************)
EXTENDS Integers, Sequences, FiniteSets, TLC

(***************************************************************************)
(* JavaScript values and texts                                             *)
(***************************************************************************)

\* The characters the model's texts use, in code-unit order.
Ascii ==
  << " ", "+", "-", ".", "/",
     "0", "1", "2", "3", "4", "5", "6", "7", "8", "9",
     "A", "B", "C", "D", "E", "F", "G", "H", "I", "J", "K", "L", "M",
     "N", "O", "P", "Q", "R", "S", "T", "U", "V", "W", "X", "Y", "Z",
     "a", "b", "c", "d", "e", "f", "g", "h", "i", "j", "k", "l", "m",
     "n", "o", "p", "q", "r", "s", "t", "u", "v", "w", "x", "y", "z" >>

\* The position of a character in Ascii.
Ord(c) == CHOOSE i \in 1..Len(Ascii) : Ascii[i] = c

DigitChars == {"0", "1", "2", "3", "4", "5", "6", "7", "8", "9"}

IsDigit(c) == c \in DigitChars

DigitVal(c) == Ord(c) - Ord("0")

DigitChar(n) == Ascii[Ord("0") + n]

IsLower(c) == Ord(c) >= Ord("a") /\ Ord(c) <= Ord("z")

IsUpper(c) == Ord(c) >= Ord("A") /\ Ord(c) <= Ord("Z")

UpperChar(c) == IF IsLower(c) THEN Ascii[Ord(c) - Ord("a") + Ord("A")] ELSE c

LowerChar(c) == IF IsUpper(c) THEN Ascii[Ord(c) - Ord("A") + Ord("a")] ELSE c

\* String.prototype.toUpperCase / toLowerCase
toUpperCase(s) == [i \in 1..Len(s) |-> UpperChar(s[i])]

toLowerCase(s) == [i \in 1..Len(s) |-> LowerChar(s[i])]

HexChars ==
  DigitChars \cup {"a", "b", "c", "d", "e", "f", "A", "B", "C", "D", "E", "F"}

IsHex(c) == c \in HexChars

\* String.prototype.trim (the only white space of the model's texts is " ")
RECURSIVE TrimLeft(_)
TrimLeft(s) == IF s # <<>> /\ Head(s) = " " THEN TrimLeft(Tail(s)) ELSE s

RECURSIVE TrimRight(_)
TrimRight(s) ==
  IF s # <<>> /\ s[Len(s)] = " " THEN TrimRight(SubSeq(s, 1, Len(s) - 1)) ELSE s

trim(s) == TrimRight(TrimLeft(s))

\* s.endsWith(suffix)
endsWith(s, suffix) ==
  /\ Len(s) >= Len(suffix)
  /\ SubSeq(s, Len(s) - Len(suffix) + 1, Len(s)) = suffix

\* s.startsWith(prefix)
startsWith(s, prefix) == Len(s) >= Len(prefix) /\ SubSeq(s, 1, Len(prefix)) = prefix

\* The relational comparison a <= b of two strings (code-unit order).
RECURSIVE StrLeq(_, _)
StrLeq(a, b) ==
  IF a = <<>> THEN TRUE
  ELSE IF b = <<>> THEN FALSE
  ELSE IF Head(a) = Head(b) THEN StrLeq(Tail(a), Tail(b))
  ELSE Ord(Head(a)) < Ord(Head(b))

\* The decimal text of a natural number (Number.prototype.toString).
RECURSIVE NatToText(_)
NatToText(n) ==
  IF n < 10 THEN <<DigitChar(n)>> ELSE NatToText(n \div 10) \o <<DigitChar(n % 10)>>

\* The value of a text of digits.
RECURSIVE DigitsToNat(_)
DigitsToNat(s) ==
  IF s = <<>> THEN 0
  ELSE 10 * DigitsToNat(SubSeq(s, 1, Len(s) - 1)) + DigitVal(s[Len(s)])

\* The longest prefix of s made of digits.
RECURSIVE DigitPrefix(_)
DigitPrefix(s) ==
  IF s # <<>> /\ IsDigit(Head(s)) THEN <<Head(s)>> \o DigitPrefix(Tail(s)) ELSE <<>>

\* A cell of a parsed row: a string (CSV, XLSX text cell), a number (XLSX
\* numeric cell) or undefined (XLSX: the column is absent from the row).
Undefined == [t |-> "undefined", s |-> <<>>, n |-> 0]

Str(s) == [t |-> "string", s |-> s, n |-> 0]

Num(n) == [t |-> "number", s |-> <<>>, n |-> n]

\* ToBoolean(v), as used by !v
Truthy(v) ==
  CASE v.t = "undefined" -> FALSE
    [] v.t = "string" -> v.s # <<>>
    [] v.t = "number" -> v.n # 0

\* ToString(v), as applied by RegExp.prototype.test, parseFloat and new Date
\* to an argument that is not a string (numbers of the model are naturals).
ToText(v) ==
  CASE v.t = "undefined" -> <<"u", "n", "d", "e", "f", "i", "n", "e", "d">>
    [] v.t = "string" -> v.s
    [] v.t = "number" -> NatToText(v.n)

\* v.method exists for a string only: calling toUpperCase or trim on a
\* number raises a TypeError.
HasStringMethods(v) == v.t = "string"

(***************************************************************************)
(* Numbers: parseFloat                                                     *)
(***************************************************************************)

\* A JavaScript number: NaN, +-Infinity, or the finite value
\* (-1)^neg * num / 10^scale, kept in lowest terms of scale.
NaN == [k |-> "nan", neg |-> FALSE, num |-> 0, scale |-> 0]

Infinity(neg) == [k |-> "inf", neg |-> neg, num |-> 0, scale |-> 0]

RECURSIVE Finite(_, _, _)
Finite(neg, num, scale) ==
  IF scale > 0 /\ num % 10 = 0 THEN Finite(neg, num \div 10, scale - 1)
  ELSE [k |-> "fin", neg |-> neg /\ num # 0, num |-> num, scale |-> scale]

Zero == Finite(FALSE, 0, 0)

isNaN(x) == x.k = "nan"

\* x <= 0
LeqZero(x) ==
  CASE x.k = "nan" -> FALSE
    [] x.k = "inf" -> x.neg
    [] x.k = "fin" -> x.neg \/ x.num = 0

S_Infinity == <<"I", "n", "f", "i", "n", "i", "t", "y">>

\* parseFloat on the text after white space and sign have been removed: the
\* longest prefix that is a decimal literal (an exponent part is not
\* modelled: no text of the model has one).
ParseUnsigned(neg, s) ==
  IF startsWith(s, S_Infinity) THEN Infinity(neg)
  ELSE LET ip == DigitPrefix(s)
           rest == SubSeq(s, Len(ip) + 1, Len(s))
           fp == IF rest # <<>> /\ Head(rest) = "."
                 THEN DigitPrefix(Tail(rest)) ELSE <<>>
       IN IF ip = <<>> /\ fp = <<>> THEN NaN
          ELSE Finite(neg, DigitsToNat(ip \o fp), Len(fp))

parseFloat(v) ==
  LET s == TrimLeft(ToText(v))
  IN IF s # <<>> /\ Head(s) = "-" THEN ParseUnsigned(TRUE, Tail(s))
     ELSE IF s # <<>> /\ Head(s) = "+" THEN ParseUnsigned(FALSE, Tail(s))
     ELSE ParseUnsigned(FALSE, s)

(***************************************************************************)
(* Dates: new Date(text), toISOString                                      *)
(***************************************************************************)

IsLeapYear(y) == (y % 4 = 0 /\ y % 100 # 0) \/ y % 400 = 0

DaysInMonth(y, m) ==
  IF m = 2 THEN (IF IsLeapYear(y) THEN 29 ELSE 28)
  ELSE IF m \in {4, 6, 9, 11} THEN 30 ELSE 31

\* /^\d{4}-\d{2}-\d{2}$/.test(s)
DateRegexTest(s) ==
  /\ Len(s) = 10
  /\ \A i \in 1..10 : IF i \in {5, 8} THEN s[i] = "-" ELSE IsDigit(s[i])

DateYear(s) == DigitsToNat(SubSeq(s, 1, 4))

DateMonth(s) == DigitsToNat(SubSeq(s, 6, 7))

DateDay(s) == DigitsToNat(SubSeq(s, 9, 10))

\* !isNaN(new Date(s).getTime()) for a text of the form dddd-dd-dd.  A day
\* of 29..31 that the month does not have is an illegal element value of
\* the date-time string format: an engine either rejects the text (rolls =
\* FALSE) or carries the extra days into the next month (rolls = TRUE).
DateParses(s, rolls) ==
  /\ DateMonth(s) \in 1..12
  /\ DateDay(s) \in 1..31
  /\ (rolls \/ DateDay(s) <= DaysInMonth(DateYear(s), DateMonth(s)))

Pad(n, width) ==
  LET t == NatToText(n)
  IN [i \in 1..(width - Len(t)) |-> "0"] \o t

\* new Date(s).toISOString().split('T')[0] for a text that DateParses: the
\* calendar date, with the days a month does not have carried over.
formatDateText(s) ==
  LET y == DateYear(s)
      m == DateMonth(s)
      d == DateDay(s)
      dim == DaysInMonth(y, m)
  IN IF d <= dim
     THEN Pad(y, 4) \o <<"-">> \o Pad(m, 2) \o <<"-">> \o Pad(d, 2)
     ELSE Pad(y, 4) \o <<"-">> \o Pad(m + 1, 2) \o <<"-">> \o Pad(d - dim, 2)

(***************************************************************************)
(* State                                                                   *)
(***************************************************************************)

VARIABLES
  dateRolls,        \* the engine's Date carries over the days a month lacks
  vrow,             \* validator run: the raw row
  vrowNumber,       \* validator run: the display row number
  vout,             \* validator run: what validateInvoiceData returned
  vpc,              \* validator run: "call" before the call, "done" after
  selection,        \* event.target.files: the files the user selected
  hpc,              \* where handleFileSelect stands
  index,            \* handleFileSelect: the loop index
  error,            \* UploadStore state: the user-facing error
  uploadProgress,   \* UploadStore state: one progress item per file
  objects,          \* object storage: the paths stored
  jobs,             \* data store: the InvoiceUploadJob records, by id
  invoices,         \* data store: the Invoice records
  pc,               \* where processInvoiceFile stands
  job,              \* processInvoiceFile: the job's id, 0 while null
  invoiceData,      \* processInvoiceFile: the validated rows
  i,                \* processInvoiceFile: the batch loop's offset
  successfulCount,  \* processInvoiceFile
  failedCount,      \* processInvoiceFile
  allErrors,        \* processInvoiceFile: the failure entries
  rowState,         \* processInvoiceFile: each row's promise
  updateData,       \* processInvoiceFile: the job update last issued
  updateCalls,      \* history: InvoiceUploadJob.update calls issued, by job id
  faults,           \* history: the calls the environment has failed so far
  jobsDeleted,      \* data store: the ids of the InvoiceUploadJob records deleted
  deletingFiles,    \* UploadStore state: the paths being deleted
  dpc,              \* where handleDeleteFile stands
  filePath,         \* handleDeleteFile: the path of the file to delete
  associatedJobs,   \* handleDeleteFile: the ids of the jobs found for the path
  jobIndex,         \* handleDeleteFile: the position in associatedJobs, from 1
  associatedInvoices, \* handleDeleteFile: the records found for the job
  pdfIndex,         \* handleDeleteFile: the position in invoicesWithPdfs, from 1
  deletion,         \* handleDeleteFile: each record deletion's promise
  ops               \* history: the delete operations issued, in order

VARIABLES
  uploadingPdfs,    \* InvoiceViewer state: the ids of the records a PDF is uploaded for
  deletingPdfs,     \* InvoiceViewer state: the ids of the records a PDF is detached from
  ppc,              \* where handlePdfUpload / handlePdfDelete stands
  pdfKey,           \* handlePdfUpload: the s3Key of the upload
  timestamp,        \* Date.now(), counted from 1
  viewerInvoices,   \* InvoiceViewer state: invoices, the records last loaded
  analytics,        \* InvoiceViewer: the memoized analytics of its list
  dashboardInvoices, \* DashboardPage state: invoices
  dashboardAnalytics, \* DashboardPage: the memoized analytics of its list
  mounted,          \* the components mounted: "InvoiceViewer", "UploadStore"
  refreshInvoiceViewer, \* window.refreshInvoiceViewer: the component whose callback it holds
  refetching,       \* the components with a re-fetch scheduled and not yet run
  viewer,           \* the viewer looked at: "InvoiceViewer" or "SubmittedInvoicesViewer"
  epc,              \* where the viewer's data-loading effect stands
  isMounted,        \* the effect's isMounted
  subscription,     \* the effect's subscription: "null", "open" or "closed"
  submitted,        \* data store: the SubmittedInvoice records
  submittedInvoices, \* SubmittedInvoicesViewer state: the records last loaded
  currentPage,      \* viewer state
  sortedLength,     \* viewer: sortedInvoices.length
  sortBy,           \* viewer state
  sortDirection,    \* viewer state
  files,            \* UploadStore state: the files listed
  lpc,              \* where loadFiles stands
  lookups,          \* history: how the lookups of the last loadFiles settled, by path
  now,              \* the time, in hours
  jobTimes          \* data store: the jobs' processingStartedAt / processingCompletedAt, in hours

vvars == <<vrow, vrowNumber, vout, vpc>>

avars == <<uploadingPdfs, deletingPdfs, ppc, pdfKey, timestamp>>

mvars == <<viewerInvoices, analytics, dashboardInvoices, dashboardAnalytics>>

rvars == <<mounted, refreshInvoiceViewer, refetching>>

svars == <<viewer, epc, isMounted, subscription>>

bvars == <<submitted, submittedInvoices>>

gvars == <<currentPage, sortedLength, sortBy, sortDirection>>

lvars == <<files, lpc, lookups, now, jobTimes>>

\* The state of the viewers.
wvars == <<avars, mvars, rvars, svars, bvars, gvars, lvars>>

\* The viewers' state without one group or two.
exceptA == <<mvars, rvars, svars, bvars, gvars, lvars>>

exceptM == <<avars, rvars, svars, bvars, gvars, lvars>>

exceptR == <<avars, mvars, svars, bvars, gvars, lvars>>

exceptMR == <<avars, svars, bvars, gvars, lvars>>

exceptG == <<avars, mvars, rvars, svars, bvars, lvars>>

exceptL == <<avars, mvars, rvars, svars, bvars, gvars>>

exceptMSB == <<avars, rvars, gvars, lvars>>

hvars == <<selection, hpc, index, error, uploadProgress>>

storevars == <<objects, jobs, invoices>>

pvars ==
  <<pc, job, invoiceData, i, successfulCount, failedCount, allErrors, rowState,
    updateData, updateCalls>>

dvars ==
  <<jobsDeleted, deletingFiles, dpc, filePath, associatedJobs, jobIndex,
    associatedInvoices, pdfIndex, deletion, ops>>

vars == <<dateRolls, vvars, hvars, storevars, pvars, faults, dvars, wvars>>

\* No file has been deleted and no handleDeleteFile call is under way.
NoPath == <<>>

\* No PDF is being attached or detached.
PdfIdle ==
  /\ uploadingPdfs = {}
  /\ deletingPdfs = {}
  /\ ppc = "idle"
  /\ pdfKey = NoPath
  /\ timestamp = 1

\* Number arithmetic: x + y.
RECURSIVE Pow10(_)
Pow10(n) == IF n = 0 THEN 1 ELSE 10 * Pow10(n - 1)

Signed(x, scale) == (IF x.neg THEN -1 ELSE 1) * x.num * Pow10(scale - x.scale)

Add(x, y) ==
  IF isNaN(x) \/ isNaN(y) THEN NaN
  ELSE IF x.k = "inf" /\ y.k = "inf" THEN (IF x.neg = y.neg THEN x ELSE NaN)
  ELSE IF x.k = "inf" THEN x
  ELSE IF y.k = "inf" THEN y
  ELSE LET scale == IF x.scale > y.scale THEN x.scale ELSE y.scale
           total == Signed(x, scale) + Signed(y, scale)
       IN IF total < 0 THEN Finite(TRUE, -total, scale) ELSE Finite(FALSE, total, scale)

\* list.reduce((sum, inv) => sum + inv.amount, 0)
RECURSIVE SumAmounts(_)
SumAmounts(list) ==
  IF list = {} THEN Zero
  ELSE LET r == CHOOSE q \in list : TRUE
       IN Add(SumAmounts(list \ {r}), r.amount)

\* The viewers before their first load: useState([]).
AnalyticsIdle ==
  /\ viewerInvoices = {}
  /\ analytics = [totalInvoices |-> 0, validInvoices |-> 0, invalidInvoices |-> 0,
                  totalAmount |-> Zero]
  /\ dashboardInvoices = {}
  /\ dashboardAnalytics = [totalActiveInvoices |-> 0, validActiveInvoices |-> 0,
                           invalidActiveInvoices |-> 0, activeInvoicesValue |-> Zero]

\* delete window.refreshInvoiceViewer leaves the property undefined.
NoCallback == "undefined"

Components == {"InvoiceViewer", "UploadStore"}

\* The page as it stands once UploadStore and then InvoiceViewer have
\* mounted: the callback registered last is the one the window holds.
PageMounted ==
  /\ mounted = Components
  /\ refreshInvoiceViewer = "InvoiceViewer"
  /\ refetching = {}

\* if (window.refreshInvoiceViewer) window.refreshInvoiceViewer(): the one
\* callback the window holds runs and schedules its component's re-fetch
\* (InvoiceViewer: setRefreshKey and refreshInvoices on timers; UploadStore:
\* loadFiles on a timer).  direct: the components whose re-fetch the caller
\* schedules itself.
RaiseRefresh(direct) ==
  /\ refetching' = refetching \cup direct \cup
                     (IF refreshInvoiceViewer = NoCallback THEN {} ELSE {refreshInvoiceViewer})
  /\ UNCHANGED <<mounted, refreshInvoiceViewer>>

\* No data-loading effect has run yet.
EffectIdle ==
  /\ viewer = "InvoiceViewer"
  /\ epc = "none"
  /\ isMounted = FALSE
  /\ subscription = "null"

SubmittedIdle ==
  /\ submitted = {}
  /\ submittedInvoices = {}

\* useState(1), useState('desc'); the sort field of the invoice viewer.
PagesIdle ==
  /\ currentPage = 1
  /\ sortedLength = 0
  /\ sortBy = "issueDate"
  /\ sortDirection = "desc"

FilesIdle ==
  /\ files = <<>>
  /\ lpc = "idle"
  /\ lookups = <<>>
  /\ now = 0
  /\ jobTimes = <<>>

RestIdle == EffectIdle /\ SubmittedIdle /\ PagesIdle /\ FilesIdle

ViewersIdle == PdfIdle /\ AnalyticsIdle /\ PageMounted /\ RestIdle

DeleteIdle ==
  /\ jobsDeleted = {}
  /\ deletingFiles = {}
  /\ dpc = "idle"
  /\ filePath = NoPath
  /\ associatedJobs = <<>>
  /\ jobIndex = 0
  /\ associatedInvoices = <<>>
  /\ pdfIndex = 0
  /\ deletion = <<>>
  /\ ops = <<>>

(***************************************************************************)
(* Row Validator                                                           *)
(***************************************************************************)

\* /^[0-9a-f]{8}-[0-9a-f]{4}-[1-5][0-9a-f]{3}-[89ab][0-9a-f]{3}-[0-9a-f]{12}$/i
UuidRegexTest(s) ==
  /\ Len(s) = 36
  /\ \A p \in 1..36 :
       IF p \in {9, 14, 19, 24} THEN s[p] = "-"
       ELSE IF p = 15 THEN s[p] \in {"1", "2", "3", "4", "5"}
       ELSE IF p = 20 THEN LowerChar(s[p]) \in {"8", "9", "a", "b"}
       ELSE IsHex(s[p])

isValidUUID(uuid) == UuidRegexTest(ToText(uuid))

\* A text that fails the regex is rejected whatever new Date makes of it.
isValidDate(dateString) ==
  LET s == ToText(dateString)
  IN IF ~DateRegexTest(s) THEN FALSE ELSE DateParses(s, dateRolls)

formatDateString(dateString) == formatDateText(ToText(dateString))

validCurrencies ==
  { <<"U", "S", "D">>, <<"E", "U", "R">>, <<"G", "B", "P">>, <<"J", "P", "Y">>,
    <<"C", "A", "D">>, <<"A", "U", "D">>, <<"C", "H", "F">>, <<"C", "N", "Y">> }

\* `Row ${rowNumber}: ${text}`
RowMsg(rowNumber, text) == <<"Row", rowNumber, text>>

MsgInvoiceId == "Invalid or missing invoice_id (must be UUID format)"

MsgSellerId == "Invalid or missing seller_id (must be UUID format)"

MsgDebtorId == "Invalid or missing debtor_id (must be UUID format)"

MsgCurrency == "Invalid currency. Must be one of: USD, EUR, GBP, JPY, CAD, AUD, CHF, CNY"

MsgAmount == "Invalid amount (must be positive number)"

MsgProduct == "Product field is required"

MsgIssueDate == "Invalid issue_date (must be YYYY-MM-DD format)"

MsgDueDate == "Invalid due_date (must be YYYY-MM-DD format)"

MsgDateOrder == "Due date must be after issue date"

\* The record validateInvoiceData starts from.
EmptyInvoice ==
  [ invoiceId |-> <<>>, sellerId |-> <<>>, debtorId |-> <<>>, currency |-> <<>>,
    amount |-> Zero, product |-> <<>>, issueDate |-> <<>>, dueDate |-> <<>>,
    isValid |-> TRUE, validationErrors |-> <<>> ]

\* The validator's working state: the record and the errors so far.
ValidationStart == [invoice |-> EmptyInvoice, errors |-> <<>>]

AddError(st, rowNumber, text) ==
  [st EXCEPT !.errors = Append(@, RowMsg(rowNumber, text))]

CheckInvoiceId(st, row, rowNumber) ==
  IF ~Truthy(row.invoice_id) \/ ~isValidUUID(row.invoice_id)
  THEN AddError(st, rowNumber, MsgInvoiceId)
  ELSE [st EXCEPT !.invoice.invoiceId = row.invoice_id.s]

CheckSellerId(st, row, rowNumber) ==
  IF ~Truthy(row.seller_id) \/ ~isValidUUID(row.seller_id)
  THEN AddError(st, rowNumber, MsgSellerId)
  ELSE [st EXCEPT !.invoice.sellerId = row.seller_id.s]

CheckDebtorId(st, row, rowNumber) ==
  IF ~Truthy(row.debtor_id) \/ ~isValidUUID(row.debtor_id)
  THEN AddError(st, rowNumber, MsgDebtorId)
  ELSE [st EXCEPT !.invoice.debtorId = row.debtor_id.s]

\* row.currency.toUpperCase() is evaluated for a truthy cell only.
CurrencyThrows(row) == Truthy(row.currency) /\ ~HasStringMethods(row.currency)

CheckCurrencyFirstOnly(st, row, rowNumber) ==
  IF ~Truthy(row.currency) \/ toUpperCase(row.currency.s) \notin validCurrencies
  THEN (IF st.errors = <<>> THEN AddError(st, rowNumber, MsgCurrency) ELSE st)
  ELSE [st EXCEPT !.invoice.currency = toUpperCase(row.currency.s)]

CheckCurrency(st, row, rowNumber) ==
  IF ~Truthy(row.currency) \/ toUpperCase(row.currency.s) \notin validCurrencies
  THEN AddError(st, rowNumber, MsgCurrency)
  ELSE [st EXCEPT !.invoice.currency = toUpperCase(row.currency.s)]

CheckAmount(st, row, rowNumber) ==
  LET amount == parseFloat(row.amount)
  IN IF isNaN(amount) \/ LeqZero(amount)
     THEN AddError(st, rowNumber, MsgAmount)
     ELSE [st EXCEPT !.invoice.amount = amount]

\* row.product.trim() is evaluated for a truthy cell only.
ProductThrows(row) == Truthy(row.product) /\ ~HasStringMethods(row.product)

CheckProduct(st, row, rowNumber) ==
  IF ~Truthy(row.product) \/ Len(trim(row.product.s)) = 0
  THEN AddError(st, rowNumber, MsgProduct)
  ELSE [st EXCEPT !.invoice.product = trim(row.product.s)]

CheckIssueDate(st, row, rowNumber) ==
  IF ~Truthy(row.issue_date) \/ ~isValidDate(row.issue_date)
  THEN AddError(st, rowNumber, MsgIssueDate)
  ELSE [st EXCEPT !.invoice.issueDate = formatDateString(row.issue_date)]

CheckDueDate(st, row, rowNumber) ==
  IF ~Truthy(row.due_date) \/ ~isValidDate(row.due_date)
  THEN AddError(st, rowNumber, MsgDueDate)
  ELSE [st EXCEPT !.invoice.dueDate = formatDateString(row.due_date)]

DueBeforeIssueOnly(issueDate, dueDate) == StrLeq(dueDate, issueDate) /\ dueDate # issueDate

\* invoice.dueDate <= invoice.issueDate
DueNotAfterIssue(issueDate, dueDate) == StrLeq(dueDate, issueDate)

CheckDateOrder(st, rowNumber) ==
  IF /\ st.invoice.issueDate # <<>>
     /\ st.invoice.dueDate # <<>>
     /\ DueNotAfterIssue(st.invoice.issueDate, st.invoice.dueDate)
  THEN AddError(st, rowNumber, MsgDateOrder)
  ELSE st

FinishValidationOffByOne(st) ==
  [st.invoice EXCEPT !.isValid = ~(Len(st.errors) > 1), !.validationErrors = st.errors]

\* if (errors.length > 0) { isValid = false; validationErrors = errors }
FinishValidation(st) ==
  IF Len(st.errors) > 0
  THEN [st.invoice EXCEPT !.isValid = FALSE, !.validationErrors = st.errors]
  ELSE st.invoice

\* What a call returns: a record, or a TypeError raised on the way.
Returned(invoice) == [threw |-> FALSE, invoice |-> invoice]

Thrown == [threw |-> TRUE, invoice |-> EmptyInvoice]

validateInvoiceData(row, rowNumber) ==
  LET s1 == CheckInvoiceId(ValidationStart, row, rowNumber)
      s2 == CheckSellerId(s1, row, rowNumber)
      s3 == CheckDebtorId(s2, row, rowNumber)
      s4 == CheckCurrency(s3, row, rowNumber)
      s5 == CheckAmount(s4, row, rowNumber)
      s6 == CheckProduct(s5, row, rowNumber)
      s7 == CheckIssueDate(s6, row, rowNumber)
      s8 == CheckDueDate(s7, row, rowNumber)
      s9 == CheckDateOrder(s8, rowNumber)
  IN IF CurrencyThrows(row) \/ ProductThrows(row)
     THEN Thrown
     ELSE Returned(FinishValidation(s9))

(***************************************************************************)
(* Sample cells                                                            *)
(***************************************************************************)

T_uuidA ==
  << "1", "2", "3", "e", "4", "5", "6", "7", "-", "e", "8", "9", "b", "-",
     "1", "2", "d", "3", "-", "a", "4", "5", "6", "-", "4", "2", "6", "6",
     "1", "4", "1", "7", "4", "0", "0", "0" >>

T_uuidB ==
  << "9", "B", "2", "D", "5", "F", "1", "0", "-", "0", "C", "4", "A", "-",
     "4", "E", "7", "B", "-", "8", "F", "2", "1", "-", "3", "A", "6", "D",
     "7", "C", "8", "E", "9", "F", "0", "0" >>

T_uuidC ==
  << "0", "f", "8", "f", "a", "d", "5", "b", "-", "d", "9", "c", "b", "-",
     "4", "6", "9", "f", "-", "a", "1", "6", "5", "-", "7", "0", "8", "6",
     "7", "7", "2", "8", "9", "5", "0", "e" >>

T_notAUuid == <<"n", "o", "t", "-", "a", "-", "u", "u", "i", "d">>

T_nearMiss ==
  << "1", "2", "3", "e", "4", "5", "6", "7", "-", "e", "8", "9", "b", "-",
     "1", "2", "d", "3", "-", "a", "4", "5", "6", "-", "4", "2", "6", "6",
     "1", "4", "1", "7", "4", "0", "0" >>

T_badVersion ==
  << "1", "2", "3", "e", "4", "5", "6", "7", "-", "e", "8", "9", "b", "-",
     "6", "2", "d", "3", "-", "a", "4", "5", "6", "-", "4", "2", "6", "6",
     "1", "4", "1", "7", "4", "0", "0", "0" >>

T_usd == <<"u", "s", "d">>

T_EUR == <<"E", "U", "R">>

T_XXX == <<"X", "X", "X">>

T_0_01 == <<"0", ".", "0", "1">>

T_0 == <<"0">>

T_minus5 == <<"-", "5">>

T_abc == <<"a", "b", "c">>

T_100_50 == <<"1", "0", "0", ".", "5", "0">>

T_Widgets == <<"W", "i", "d", "g", "e", "t", "s">>

T_padGadgets == <<" ", " ", "G", "a", "d", "g", "e", "t", "s", " ">>

T_blank == <<" ", " ", " ">>

T_2024_01_15 == <<"2", "0", "2", "4", "-", "0", "1", "-", "1", "5">>

T_2024_02_30 == <<"2", "0", "2", "4", "-", "0", "2", "-", "3", "0">>

T_2024_3_1 == <<"2", "0", "2", "4", "-", "3", "-", "1">>

T_2024_03_01 == <<"2", "0", "2", "4", "-", "0", "3", "-", "0", "1">>

T_2024_01_10 == <<"2", "0", "2", "4", "-", "0", "1", "-", "1", "0">>

T_2024_13_01 == <<"2", "0", "2", "4", "-", "1", "3", "-", "0", "1">>

RawRow(id, seller, debtor, currency, amount, product, issue, due) ==
  [ invoice_id |-> id, seller_id |-> seller, debtor_id |-> debtor,
    currency |-> currency, amount |-> amount, product |-> product,
    issue_date |-> issue, due_date |-> due ]

InvoiceIdCells == {Str(T_uuidA), Str(T_notAUuid), Undefined}

SellerIdCells == {Str(T_uuidB), Str(T_nearMiss)}

DebtorIdCells == {Str(T_uuidC), Str(T_badVersion)}

CurrencyCells == {Str(T_usd), Str(T_EUR), Str(T_XXX), Str(<<>>), Num(840)}

AmountCells ==
  {Str(T_0_01), Str(T_100_50), Str(T_0), Str(T_minus5), Str(T_abc), Str(S_Infinity),
   Num(250)}

ProductCells == {Str(T_Widgets), Str(T_padGadgets), Str(T_blank), Num(42)}

IssueDateCells == {Str(T_2024_01_15), Str(T_2024_02_30), Str(T_2024_3_1), Undefined}

DueDateCells ==
  {Str(T_2024_03_01), Str(T_2024_01_15), Str(T_2024_01_10), Str(T_2024_13_01), Num(45000)}

\* Display row numbers run from 2 (the first data row) to MaxRowNumber.
MaxRowNumber == 3

(***************************************************************************)
(* File Ingestor and Batch Importer: constants and helpers                 *)
(***************************************************************************)

\* Rows per concurrent write batch.  The source sets batchSize = 25; the
\* model scales it down so that every settle order of a batch is explored.
batchSize == 2

\* The most files in one selection, and the most rows in all of them.
MaxFiles == 2

MaxRows == 3

\* The most calls the environment fails in one run.
MaxFaults == 2

Null == "null"

Min(a, b) == IF a <= b THEN a ELSE b

\* Math.ceil(a / b)
CeilDiv(a, b) == (a + b - 1) \div b

S_csv == <<".", "c", "s", "v">>

S_xlsx == <<".", "x", "l", "s", "x">>

\* No name is filtered out.
AcceptAnyName(name) == TRUE

\* /\.(csv|xlsx)$/i.test(file.name)
IsInvoiceFileName(name) ==
  endsWith(toLowerCase(name), S_csv) \/ endsWith(toLowerCase(name), S_xlsx)

\* fileName.toLowerCase().endsWith('.csv') ? 'CSV' : 'XLSX'
FileTypeOf(fileName) == IF endsWith(toLowerCase(fileName), S_csv) THEN "CSV" ELSE "XLSX"

\* result.path: `user-files/${identityId}/${Date.now()}-${file.name}`, the
\* time stamp standing for the position in the selection.
PathOf(idx, name) == <<"user-files", idx, name>>

InitialProgressItem(file) ==
  [ fileName |-> file.name, progress |-> 0, isUploading |-> TRUE,
    isProcessing |-> FALSE, processingProgress |-> 0 ]

\* An errorMessage / a message of an error list.
NoMessage == [kind |-> "none", count |-> 0, sample |-> <<>>, text |-> ""]

ErrorText(text) == [kind |-> "error", count |-> 0, sample |-> <<>>, text |-> text]

PlainMsg(text) == <<"", 0, text>>

InitialStatusCompleted == "COMPLETED"

\* status: 'PROCESSING' of InvoiceUploadJob.create
InitialStatus == "PROCESSING"

\* InvoiceUploadJob.create is given totalInvoices: 0, successfulInvoices: 0
\* and failedInvoices: 0.
CreateNamesCounts == TRUE

NewJob(fileName, fileType, s3Key) ==
  [ fileName |-> fileName, fileType |-> fileType, s3Key |-> s3Key,
    status |-> InitialStatus, totalInvoices |-> 0, successfulInvoices |-> 0,
    failedInvoices |-> 0, errorMessage |-> NoMessage,
    processingCompletedAt |-> FALSE ]

\* The argument of Invoice.create for row globalIndex of job jobId; the
\* store's generated id is taken to be the pair of the two.
InvoiceRecord(jobId, globalIndex, invoice) ==
  [ id |-> <<jobId, globalIndex>>,
    invoiceId |-> invoice.invoiceId, sellerId |-> invoice.sellerId,
    debtorId |-> invoice.debtorId, currency |-> invoice.currency,
    amount |-> invoice.amount, product |-> invoice.product,
    issueDate |-> invoice.issueDate, dueDate |-> invoice.dueDate,
    uploadJobId |-> jobId, isValid |-> invoice.isValid,
    validationErrors |-> invoice.validationErrors,
    \* not given to Invoice.create: unset until a PDF is attached
    pdfS3Key |-> NoPath ]

\* The counters of the batch loop, as one value.
Counters(s, f, e) == [successfulCount |-> s, failedCount |-> f, allErrors |-> e]

FailureEntry(globalIndex, hasId, invoiceId, errors) ==
  [row |-> globalIndex, hasInvoiceId |-> hasId, invoice_id |-> invoiceId, errors |-> errors]

\* A row that failed validation is passed over without a trace.
RowInvalidUncounted(c, globalIndex, invoice) == c

\* if (!invoice.isValid) { failedCount++; allErrors.push(...); return null }
RowInvalid(c, globalIndex, invoice) ==
  [ c EXCEPT !.failedCount = @ + 1,
             !.allErrors = Append(@, FailureEntry(globalIndex, FALSE, <<>>,
                                                  invoice.validationErrors)) ]

RowRejectedUncounted(c, globalIndex, invoice) ==
  [ c EXCEPT !.allErrors = Append(@, FailureEntry(globalIndex, TRUE, invoice.invoiceId,
                                                  <<PlainMsg("create rejected")>>)) ]

\* if (result.errors) { failedCount++; allErrors.push(...); return null }
RowRejected(c, globalIndex, invoice) ==
  [ c EXCEPT !.failedCount = @ + 1,
             !.allErrors = Append(@, FailureEntry(globalIndex, TRUE, invoice.invoiceId,
                                                  <<PlainMsg("create rejected")>>)) ]

RowThrewNoEntry(c, globalIndex, invoice) == [c EXCEPT !.failedCount = @ + 1]

\* catch (error) { failedCount++; allErrors.push(...); return null }
RowThrew(c, globalIndex, invoice) ==
  [ c EXCEPT !.failedCount = @ + 1,
             !.allErrors = Append(@, FailureEntry(globalIndex, TRUE, invoice.invoiceId,
                                                  <<PlainMsg("create threw")>>)) ]

\* successfulCount++
RowCreated(c) == [c EXCEPT !.successfulCount = @ + 1]

\* Every row goes on to Invoice.create.
SkipsNothing(invoice) == FALSE

\* if (!invoice.isValid) { failedCount++; allErrors.push(...); return null }
SkipsCreate(invoice) == ~invoice.isValid

\* batch.map(async ...) up to each callback's first await, rows lo..hi in
\* order: an invalid row is counted at once, a valid row's create is issued.
RECURSIVE DispatchRows(_, _, _, _)
DispatchRows(c, data, lo, hi) ==
  IF lo > hi THEN c
  ELSE DispatchRows(IF SkipsCreate(data[lo]) THEN RowInvalid(c, lo, data[lo]) ELSE c,
                    data, lo + 1, hi)

anySettled(rs, lo, hi) == \E k \in lo..hi : rs[k] # "inflight"

\* Promise.allSettled(batchPromises) has resolved
allSettled(rs, lo, hi) == \A k \in lo..hi : rs[k] # "inflight"

finalStatusAnyFailure(failed, successful) == IF failed = 0 THEN "COMPLETED" ELSE "FAILED"

\* failedCount === 0 ? 'COMPLETED' : (successfulCount === 0 ? 'FAILED' : 'COMPLETED')
finalStatus(failed, successful) ==
  IF failed = 0 THEN "COMPLETED"
  ELSE IF successful = 0 THEN "FAILED" ELSE "COMPLETED"

\* `${allErrors.length} validation errors. Sample: ${...first 3...}` or null
errorSummary(errs) ==
  IF Len(errs) > 0
  THEN [ kind |-> "summary", count |-> Len(errs),
         sample |-> [k \in 1..Min(3, Len(errs)) |-> <<errs[k].row, errs[k].errors[1]>>],
         text |-> "" ]
  ELSE NoMessage

NoUpdate ==
  [ id |-> 0, status |-> "", hasCounts |-> FALSE, totalInvoices |-> 0,
    successfulInvoices |-> 0, failedInvoices |-> 0, errorMessage |-> NoMessage ]

\* updateData of the final job update
FinalUpdate(jobId, total, c) ==
  [ id |-> jobId, status |-> finalStatus(c.failedCount, c.successfulCount),
    hasCounts |-> TRUE, totalInvoices |-> total,
    successfulInvoices |-> c.successfulCount, failedInvoices |-> c.failedCount,
    errorMessage |-> errorSummary(c.allErrors) ]

\* The update of the catch block: status FAILED and the error's message.
FailedUpdate(jobId, text) ==
  [ id |-> jobId, status |-> "FAILED", hasCounts |-> FALSE, totalInvoices |-> 0,
    successfulInvoices |-> 0, failedInvoices |-> 0, errorMessage |-> ErrorText(text) ]

\* InvoiceUploadJob.update(u) on the stored record: the fields u names.
ApplyUpdate(j, u) ==
  [ j EXCEPT !.status = u.status,
             !.processingCompletedAt = TRUE,
             !.totalInvoices = IF u.hasCounts THEN u.totalInvoices ELSE @,
             !.successfulInvoices = IF u.hasCounts THEN u.successfulInvoices ELSE @,
             !.failedInvoices = IF u.hasCounts THEN u.failedInvoices ELSE @,
             !.errorMessage = IF u.errorMessage.kind # "none" THEN u.errorMessage ELSE @ ]

UpdateFailurePropagatesAlways == TRUE

\* The try/catch around the final update logs a failed update and goes on.
UpdateFailurePropagates == FALSE

PostUpdateStepsThrowAlways == TRUE

\* Nothing between the final update and the end of the try block throws.
PostUpdateStepsThrow == FALSE

\* The outcomes of a call of the data store, and of storage or download.
CallOutcomes == {"ok", "errors", "throws"}

TransferOutcomes == {"ok", "fails"}

(***************************************************************************)
(* Sample files                                                            *)
(***************************************************************************)

T_a_csv == <<"a", ".", "c", "s", "v">>

T_b_xlsx == <<"B", ".", "X", "L", "S", "X">>

T_c_xls == <<"c", ".", "x", "l", "s">>

T_d_pdf == <<"d", ".", "p", "d", "f">>

ValidRow ==
  RawRow(Str(T_uuidA), Str(T_uuidB), Str(T_uuidC), Str(T_usd), Str(T_100_50),
         Str(T_Widgets), Str(T_2024_01_15), Str(T_2024_03_01))

BadCurrencyRow == [ValidRow EXCEPT !.currency = Str(T_XXX)]

NumericProductRow == [ValidRow EXCEPT !.product = Num(42)]

FileNames == {T_a_csv, T_b_xlsx, T_c_xls, T_d_pdf}

\* The rows a file of that name may hold (a CSV cell is always a string).
SampleRows(name) ==
  IF ~IsInvoiceFileName(name) THEN {}
  ELSE IF FileTypeOf(name) = "CSV" THEN {ValidRow, BadCurrencyRow}
  ELSE {ValidRow, NumericProductRow}

SeqsUpTo(S, n) == UNION {[1..k -> S] : k \in 0..n}

Files == UNION {{[name |-> nm, rows |-> r] : r \in SeqsUpTo(SampleRows(nm), MaxRows)} : nm \in FileNames}

RECURSIVE TotalRows(_)
TotalRows(sel) == IF sel = <<>> THEN 0 ELSE Len(Head(sel).rows) + TotalRows(Tail(sel))

\* A selection of the file picker: files of one folder, so of distinct names.
Selections ==
  {sel \in SeqsUpTo(Files, MaxFiles) :
     /\ TotalRows(sel) <= MaxRows
     /\ \A a, b \in 1..Len(sel) : sel[a].name = sel[b].name => a = b}

(***************************************************************************)
(* handleFileSelect and processInvoiceFile                                 *)
(***************************************************************************)

\* prev.map((item, k) => k === idx ? f(item) : item), idx counted from 0
ProgressAt(up, idx, item) ==
  [k \in 1..Len(up) |-> IF k = idx + 1 THEN item ELSE up[k]]

ItemAt(idx) == uploadProgress[idx + 1]

\* The loop moves on past the file at idx without handling it.
NextFileSkipping(idx, err) ==
  /\ index' = IF idx + 1 < Len(selection) THEN idx + 1 ELSE idx
  /\ IF idx < Len(selection)
     THEN hpc' = "uploading" /\ error' = err
     ELSE hpc' = "cleanup" /\ error' = Null

\* The head of handleFileSelect's loop at index idx: the next upload is
\* started, or the loop is left and the clean-up awaits loadFiles.
NextFile(idx, err) ==
  /\ index' = idx
  /\ IF idx < Len(selection)
     THEN hpc' = "uploading" /\ error' = err
     ELSE hpc' = "cleanup" /\ error' = Null

\* The locals of a processInvoiceFile call that has not begun.
ResetLocals ==
  /\ job' = 0
  /\ invoiceData' = <<>>
  /\ i' = 0
  /\ successfulCount' = 0
  /\ failedCount' = 0
  /\ allErrors' = <<>>
  /\ rowState' = <<>>
  /\ updateData' = NoUpdate

\* A call may fail while the environment has failures left to inject.
Outcome(outcome) ==
  IF outcome = "ok"
  THEN faults' = faults
  ELSE faults < MaxFaults /\ faults' = faults + 1

HandleFileSelect ==
  /\ hpc = "select"
  /\ LET invoiceFiles == SelectSeq(selection, LAMBDA f : IsInvoiceFileName(f.name))
     IN IF Len(invoiceFiles) = 0
        THEN /\ error' = "Please select CSV or Excel files containing invoice data"
             /\ hpc' = "done"
             /\ UNCHANGED <<index, uploadProgress>>
        ELSE IF Len(invoiceFiles) # Len(selection)
        THEN /\ error' = "Only CSV and Excel files are supported for invoice processing"
             /\ hpc' = "done"
             /\ UNCHANGED <<index, uploadProgress>>
        ELSE /\ uploadProgress' =
                  [k \in 1..Len(invoiceFiles) |-> InitialProgressItem(invoiceFiles[k])]
             /\ NextFile(0, error)
  /\ UNCHANGED <<wvars, dvars, faults, dateRolls, vvars, selection, storevars, pvars>>

\* onProgress of uploadData: the bytes transferred so far (half of them).
UploadProgressEvent ==
  /\ hpc = "uploading"
  /\ ItemAt(index).progress < 50
  /\ uploadProgress' = ProgressAt(uploadProgress, index, [ItemAt(index) EXCEPT !.progress = 50])
  /\ UNCHANGED <<wvars, dvars, faults, dateRolls, vvars, selection, hpc, index, error, storevars, pvars>>

\* uploadData(...).result settles.  On success processInvoiceFile is called
\* and runs up to its first await, InvoiceUploadJob.create.
UploadSettles(outcome) ==
  /\ hpc = "uploading"
  /\ Outcome(outcome)
  /\ IF outcome = "ok"
     THEN /\ objects' = objects \cup {PathOf(index, selection[index + 1].name)}
          /\ uploadProgress' =
               ProgressAt(uploadProgress, index,
                          [ItemAt(index) EXCEPT !.isUploading = FALSE, !.progress = 100,
                                                !.isProcessing = TRUE,
                                                !.processingProgress = 10])
          /\ hpc' = "processing"
          /\ pc' = "createJob"
          /\ UNCHANGED <<index, error>>
     ELSE /\ uploadProgress' =
               ProgressAt(uploadProgress, index,
                          [ItemAt(index) EXCEPT !.isUploading = FALSE,
                                                !.isProcessing = FALSE, !.progress = 0])
          /\ NextFile(index + 1, error)
          /\ UNCHANGED <<objects, pc>>
  /\ UNCHANGED <<wvars, dvars, dateRolls, vvars, selection, jobs, invoices, job, invoiceData, i,
                 successfulCount, failedCount, allErrors, rowState, updateData,
                 updateCalls>>

\* The catch block of processInvoiceFile with a job reference: the FAILED
\* update is issued.
EnterCatchWithJob(text) ==
  /\ updateData' = FailedUpdate(job, text)
  /\ updateCalls' = [updateCalls EXCEPT ![job] = @ + 1]
  /\ pc' = "awaitFailedUpdate"

\* InvoiceUploadJob.create settles.  On success downloadAndParseFile is
\* called and runs up to its first await, getUrl; otherwise the catch block
\* runs without a job reference and rethrows.
JobCreateSettles(outcome) ==
  /\ pc = "createJob"
  /\ Outcome(outcome)
  /\ IF outcome = "ok"
     THEN /\ jobs' = Append(jobs, NewJob(selection[index + 1].name,
                                         FileTypeOf(selection[index + 1].name),
                                         PathOf(index, selection[index + 1].name)))
          /\ updateCalls' = Append(updateCalls, 0)
          /\ job' = Len(jobs) + 1
          /\ uploadProgress' =
               ProgressAt(uploadProgress, index,
                          [ItemAt(index) EXCEPT !.processingProgress = 20])
          /\ pc' = "download"
     ELSE /\ uploadProgress' =
               ProgressAt(uploadProgress, index,
                          [ItemAt(index) EXCEPT !.isProcessing = FALSE,
                                                !.processingProgress = 0])
          /\ pc' = "threw"
          /\ UNCHANGED <<jobs, updateCalls, job>>
  /\ UNCHANGED <<wvars, dvars, dateRolls, vvars, selection, hpc, index, error, objects, invoices,
                 invoiceData, i, successfulCount, failedCount, allErrors, rowState,
                 updateData>>

\* The loop stops one batch early.
moreRowsButLast(offset, length) == offset + batchSize < length

\* i < invoiceData.length
moreRows(offset, length) == offset < length

\* The batch loop from its head at i = offset: the next batch is dispatched
\* and awaited, or the loop ends and the final job update is issued.
LoopFrom(offset, data, c, rs) ==
  /\ i' = offset
  /\ IF moreRows(offset, Len(data))
     THEN LET hi == Min(offset + batchSize, Len(data))
              c2 == DispatchRows(c, data, offset + 1, hi)
          IN /\ successfulCount' = c2.successfulCount
             /\ failedCount' = c2.failedCount
             /\ allErrors' = c2.allErrors
             /\ rowState' = [k \in 1..Len(data) |->
                               IF k \in (offset + 1)..hi
                               THEN (IF SkipsCreate(data[k]) THEN "failed" ELSE "inflight")
                               ELSE rs[k]]
             /\ pc' = "awaitBatch"
             /\ UNCHANGED <<updateData, updateCalls>>
     ELSE /\ successfulCount' = c.successfulCount
          /\ failedCount' = c.failedCount
          /\ allErrors' = c.allErrors
          /\ rowState' = rs
          /\ updateData' = FinalUpdate(job, Len(data), c)
          /\ updateCalls' = [updateCalls EXCEPT ![job] = @ + 1]
          /\ pc' = "awaitUpdate"

\* downloadAndParseFile settles: the download fails, a row makes
\* validateInvoiceData throw, or the validated rows come back and the batch
\* loop begins.
DownloadSettles(outcome) ==
  /\ pc = "download"
  /\ Outcome(outcome)
  /\ LET rawData == selection[index + 1].rows
         results == [k \in 1..Len(rawData) |-> validateInvoiceData(rawData[k], k + 1)]
     IN IF outcome = "fails" \/ \E k \in 1..Len(rawData) : results[k].threw
        THEN /\ EnterCatchWithJob("download or parse failed")
             /\ UNCHANGED <<uploadProgress, invoiceData, i, successfulCount, failedCount,
                            allErrors, rowState>>
        ELSE LET data == [k \in 1..Len(rawData) |-> results[k].invoice]
             IN /\ invoiceData' = data
                /\ uploadProgress' =
                     ProgressAt(uploadProgress, index,
                                [ItemAt(index) EXCEPT !.processingProgress = 40])
                /\ LoopFrom(0, data, Counters(0, 0, <<>>), [k \in 1..Len(data) |-> "idle"])
  /\ UNCHANGED <<wvars, dvars, dateRolls, vvars, selection, hpc, index, error, storevars, job>>

\* The Invoice.create of row k settles, and the row's callback runs on.
CreateSettles(k, outcome) ==
  /\ k \in 1..Len(rowState)
  /\ rowState[k] = "inflight"
  /\ Outcome(outcome)
  /\ LET c == Counters(successfulCount, failedCount, allErrors)
         c2 == CASE outcome = "ok" -> RowCreated(c)
                 [] outcome = "errors" -> RowRejected(c, k, invoiceData[k])
                 [] outcome = "throws" -> RowThrew(c, k, invoiceData[k])
     IN /\ successfulCount' = c2.successfulCount
        /\ failedCount' = c2.failedCount
        /\ allErrors' = c2.allErrors
  /\ invoices' = IF outcome = "ok"
                 THEN invoices \cup {InvoiceRecord(job, k, invoiceData[k])}
                 ELSE invoices
  /\ rowState' = [rowState EXCEPT ![k] = IF outcome = "ok" THEN "created" ELSE "failed"]
  /\ UNCHANGED <<wvars, dvars, dateRolls, vvars, hvars, objects, jobs, pc, job, invoiceData, i,
                 updateData, updateCalls>>

\* await Promise.allSettled(batchPromises) resumes: progress, next batch.
AllSettledResolves ==
  /\ pc = "awaitBatch"
  /\ allSettled(rowState, i + 1, Min(i + batchSize, Len(invoiceData)))
  /\ LET totalBatches == CeilDiv(Len(invoiceData), batchSize)
         currentBatchNumber == (i \div batchSize) + 1
     IN uploadProgress' =
          ProgressAt(uploadProgress, index,
                     [ItemAt(index) EXCEPT
                        \* 40 + (currentBatchNumber / totalBatches) * 50, whole part
                        !.processingProgress = 40 + (currentBatchNumber * 50) \div totalBatches])
  /\ LoopFrom(i + batchSize, invoiceData,
              Counters(successfulCount, failedCount, allErrors), rowState)
  /\ UNCHANGED <<wvars, dvars, faults, dateRolls, vvars, selection, hpc, index, error, storevars, job,
                 invoiceData>>

\* The final InvoiceUploadJob.update settles; a failure is logged only.
UpdateSettles(outcome) ==
  /\ pc = "awaitUpdate"
  /\ Outcome(outcome)
  /\ jobs' = IF outcome = "ok"
             THEN [jobs EXCEPT ![updateData.id] = ApplyUpdate(@, updateData)]
             ELSE jobs
  /\ IF (outcome # "ok" /\ UpdateFailurePropagates) \/ PostUpdateStepsThrow
     THEN /\ EnterCatchWithJob("processing error")
          /\ UNCHANGED <<uploadProgress, rvars>>
     ELSE /\ uploadProgress' =
               ProgressAt(uploadProgress, index,
                          [ItemAt(index) EXCEPT !.isProcessing = FALSE,
                                                !.processingProgress = 100])
          /\ pc' = "returned"
          /\ RaiseRefresh({})
          /\ UNCHANGED <<updateData, updateCalls>>
  /\ UNCHANGED <<exceptR, dvars, dateRolls, vvars, selection, hpc, index, error, objects, invoices, job,
                 invoiceData, i, successfulCount, failedCount, allErrors, rowState>>

\* The catch block's update settles (its result is not read); progress is
\* reset and the error is rethrown.
FailedUpdateSettles(outcome) ==
  /\ pc = "awaitFailedUpdate"
  /\ Outcome(outcome)
  /\ jobs' = IF outcome = "ok"
             THEN [jobs EXCEPT ![updateData.id] = ApplyUpdate(@, updateData)]
             ELSE jobs
  /\ uploadProgress' =
       ProgressAt(uploadProgress, index,
                  [ItemAt(index) EXCEPT !.isProcessing = FALSE, !.processingProgress = 0])
  /\ pc' = "threw"
  /\ UNCHANGED <<wvars, dvars, dateRolls, vvars, selection, hpc, index, error, objects, invoices, job,
                 invoiceData, i, successfulCount, failedCount, allErrors, rowState,
                 updateData, updateCalls>>

\* await processInvoiceFile(...) resumes normally: the refresh is raised, a
\* loadFiles is put on a timer, and the loop goes on to the next file.
ProcessReturned ==
  /\ hpc = "processing"
  /\ pc = "returned"
  /\ pc' = "idle"
  /\ ResetLocals
  /\ NextFile(index + 1, error)
  /\ RaiseRefresh({"UploadStore"})
  /\ UNCHANGED <<exceptR, dvars, faults, dateRolls, vvars, selection, uploadProgress, storevars, updateCalls>>

\* await processInvoiceFile(...) throws: the file's catch block, then on to
\* the next file.
ProcessThrew ==
  /\ hpc = "processing"
  /\ pc = "threw"
  /\ pc' = "idle"
  /\ ResetLocals
  /\ uploadProgress' =
       ProgressAt(uploadProgress, index,
                  [ItemAt(index) EXCEPT !.isUploading = FALSE, !.isProcessing = FALSE,
                                        !.progress = 0])
  /\ NextFile(index + 1, error)
  /\ UNCHANGED <<wvars, dvars, faults, dateRolls, vvars, selection, storevars, updateCalls>>

\* The clean-up after the loop: await loadFiles() resumes, further
\* loadFiles calls are put on timers and the refresh is raised.
CleanupDone ==
  /\ hpc = "cleanup"
  /\ hpc' = "done"
  /\ RaiseRefresh({"UploadStore"})
  /\ UNCHANGED <<exceptR, dvars, faults, dateRolls, vvars, selection, index, error, uploadProgress, storevars,
                 pvars>>

Init ==
  /\ dateRolls \in BOOLEAN
  /\ vrow = ValidRow
  /\ vrowNumber = 2
  /\ vout = Thrown
  /\ vpc = "off"
  /\ selection \in Selections
  /\ hpc = "select"
  /\ index = 0
  /\ error = Null
  /\ uploadProgress = <<>>
  /\ objects = {}
  /\ jobs = <<>>
  /\ invoices = {}
  /\ pc = "idle"
  /\ job = 0
  /\ invoiceData = <<>>
  /\ i = 0
  /\ successfulCount = 0
  /\ failedCount = 0
  /\ allErrors = <<>>
  /\ rowState = <<>>
  /\ updateData = NoUpdate
  /\ updateCalls = <<>>
  /\ faults = 0
  /\ DeleteIdle
  /\ ViewersIdle

Next ==
  \/ HandleFileSelect
  \/ UploadProgressEvent
  \/ \E outcome \in TransferOutcomes : UploadSettles(outcome)
  \/ \E outcome \in CallOutcomes : JobCreateSettles(outcome)
  \/ \E outcome \in TransferOutcomes : DownloadSettles(outcome)
  \/ \E k \in 1..MaxRows, outcome \in CallOutcomes : CreateSettles(k, outcome)
  \/ AllSettledResolves
  \/ \E outcome \in CallOutcomes : UpdateSettles(outcome)
  \/ \E outcome \in CallOutcomes : FailedUpdateSettles(outcome)
  \/ ProcessReturned
  \/ ProcessThrew
  \/ CleanupDone

Spec == Init /\ [][Next]_vars

(***************************************************************************)
(* The validator on its own: one call on any sample row                    *)
(***************************************************************************)

VInit ==
  /\ dateRolls \in BOOLEAN
  /\ vrow \in { RawRow(a, b, c, d, e, f, g, h) :
                  a \in InvoiceIdCells, b \in SellerIdCells, c \in DebtorIdCells,
                  d \in CurrencyCells, e \in AmountCells, f \in ProductCells,
                  g \in IssueDateCells, h \in DueDateCells }
  /\ vrowNumber \in 2..MaxRowNumber
  /\ vout = Thrown
  /\ vpc = "call"
  /\ selection = <<>>
  /\ hpc = "off"
  /\ index = 0
  /\ error = Null
  /\ uploadProgress = <<>>
  /\ objects = {}
  /\ jobs = <<>>
  /\ invoices = {}
  /\ pc = "idle"
  /\ job = 0
  /\ invoiceData = <<>>
  /\ i = 0
  /\ successfulCount = 0
  /\ failedCount = 0
  /\ allErrors = <<>>
  /\ rowState = <<>>
  /\ updateData = NoUpdate
  /\ updateCalls = <<>>
  /\ faults = 0
  /\ DeleteIdle
  /\ ViewersIdle

Validate ==
  /\ vpc = "call"
  /\ vout' = validateInvoiceData(vrow, vrowNumber)
  /\ vpc' = "done"
  /\ UNCHANGED <<wvars, dvars, faults, dateRolls, vrow, vrowNumber, hvars, storevars, pvars>>

VNext == Validate

VSpec == VInit /\ [][VNext]_vars

(***************************************************************************)
(* Properties of the Row Validator (checked under VSpec)                   *)
(***************************************************************************)

Range(seq) == {seq[p] : p \in 1..Len(seq)}

Returns == vpc = "done" /\ ~vout.threw

\* The rules, stated on the raw row.
IdRulePasses(cell) == Truthy(cell) /\ isValidUUID(cell)

CurrencyRulePasses(cell) == cell.t = "string" /\ toUpperCase(cell.s) \in validCurrencies

AmountRulePasses(cell) == ~isNaN(parseFloat(cell)) /\ ~LeqZero(parseFloat(cell))

ProductRulePasses(cell) == cell.t = "string" /\ trim(cell.s) # <<>>

DateRulePasses(cell) == Truthy(cell) /\ isValidDate(cell)

\* A calendar date dddd-dd-dd as a number that orders dates.
DateOrdinal(s) == DateYear(s) * 10000 + DateMonth(s) * 100 + DateDay(s)

DateOrderRuleFails(row) ==
  /\ DateRulePasses(row.issue_date)
  /\ DateRulePasses(row.due_date)
  /\ DateOrdinal(formatDateString(row.due_date))
       <= DateOrdinal(formatDateString(row.issue_date))

\* The messages a row must get, one per violated rule, in rule order.
ExpectedErrors(row, n) ==
  (IF IdRulePasses(row.invoice_id) THEN <<>> ELSE <<RowMsg(n, MsgInvoiceId)>>)
  \o (IF IdRulePasses(row.seller_id) THEN <<>> ELSE <<RowMsg(n, MsgSellerId)>>)
  \o (IF IdRulePasses(row.debtor_id) THEN <<>> ELSE <<RowMsg(n, MsgDebtorId)>>)
  \o (IF CurrencyRulePasses(row.currency) THEN <<>> ELSE <<RowMsg(n, MsgCurrency)>>)
  \o (IF AmountRulePasses(row.amount) THEN <<>> ELSE <<RowMsg(n, MsgAmount)>>)
  \o (IF ProductRulePasses(row.product) THEN <<>> ELSE <<RowMsg(n, MsgProduct)>>)
  \o (IF DateRulePasses(row.issue_date) THEN <<>> ELSE <<RowMsg(n, MsgIssueDate)>>)
  \o (IF DateRulePasses(row.due_date) THEN <<>> ELSE <<RowMsg(n, MsgDueDate)>>)
  \o (IF DateOrderRuleFails(row) THEN <<RowMsg(n, MsgDateOrder)>> ELSE <<>>)

\* C8: the record validateInvoiceData returns has isValid = TRUE exactly
\* when its validationErrors list is empty.
C8_ValidIffNoErrors ==
  Returns => (vout.invoice.isValid <=> vout.invoice.validationErrors = <<>>)

\* C8 witness: a returned record that is invalid and carries two errors or more.
C8_Witness ==
  Returns /\ ~vout.invoice.isValid /\ Len(vout.invoice.validationErrors) >= 2

C10_DueAfterIssue ==
  Returns =>
    LET inv == vout.invoice
    IN /\ inv.isValid =>
            /\ DateRegexTest(inv.issueDate)
            /\ DateRegexTest(inv.dueDate)
            /\ DateOrdinal(inv.dueDate) > DateOrdinal(inv.issueDate)
       /\ DateOrderRuleFails(vrow) =>
            /\ RowMsg(vrowNumber, MsgDateOrder) \in Range(inv.validationErrors)
            /\ ~inv.isValid
            /\ inv.issueDate = formatDateString(vrow.issue_date)
            /\ inv.dueDate = formatDateString(vrow.due_date)

\* C10 witness: both dates parsed, the due date equals the issue date, and
\* the date-order error is the record's only error.
C10_Witness ==
  /\ Returns
  /\ vout.invoice.issueDate # <<>>
  /\ vout.invoice.dueDate = vout.invoice.issueDate
  /\ vout.invoice.validationErrors = <<RowMsg(vrowNumber, MsgDateOrder)>>


(***************************************************************************)
(* Properties of the batch importer                                        *)
(***************************************************************************)

Settled(k) == rowState[k] \in {"created", "failed"}

Dispatched(k) == rowState[k] # "idle"

\* The batch a row belongs to, counted from 0.
BatchOf(k) == (k - 1) \div batchSize

\* The InvoiceRecords stored for a job.
RecordsOf(jobId) == {r \in invoices : r.uploadJobId = jobId}

\* A processInvoiceFile call that holds a job reference has ended.
RunEnded == pc \in {"returned", "threw"} /\ job # 0

\* C1: no row of a batch is dispatched (validated and, if valid, its
\* Invoice.create issued) before every row of every earlier batch has
\* settled, whatever the outcomes of the creations.
C1_BatchesSequential ==
  \A k \in 1..Len(rowState) :
    Dispatched(k) =>
      \A m \in 1..Len(rowState) : BatchOf(m) < BatchOf(k) => Settled(m)

\* Rows 1 and 2 of the first batch settled in the order 2, 1 (both
\* failing), and the second batch's row is now in flight.
C1_Witness ==
  /\ pc = "awaitBatch"
  /\ Len(rowState) > batchSize
  /\ rowState[batchSize + 1] = "inflight"
  /\ Len(allErrors) = 2
  /\ allErrors[1].row = 2
  /\ allErrors[2].row = 1

\* The status the claim expects of an ended run.
ExpectedFinalStatus ==
  IF successfulCount = 0 /\ \E k \in 1..Len(rowState) : Dispatched(k)
  THEN "FAILED"
  ELSE "COMPLETED"

C3_FinalCounts ==
  /\ pc = "awaitUpdate" =>
       /\ updateData.totalInvoices = Len(selection[index + 1].rows)
       /\ updateData.successfulInvoices + updateData.failedInvoices
            = updateData.totalInvoices
       /\ updateData.successfulInvoices = Cardinality(RecordsOf(job))
  /\ (pc = "returned" /\ jobs[job].status # "PROCESSING") =>
       /\ jobs[job].totalInvoices = Len(selection[index + 1].rows)
       /\ jobs[job].successfulInvoices + jobs[job].failedInvoices
            = jobs[job].totalInvoices
       /\ jobs[job].successfulInvoices = Cardinality(RecordsOf(job))

\* Three rows in two batches, one rejected by the backend: COMPLETED with
\* two successful and one failed.
C3_Witness ==
  /\ pc = "awaitUpdate"
  /\ updateData.status = "COMPLETED"
  /\ updateData.totalInvoices = 3
  /\ updateData.successfulInvoices = 2
  /\ updateData.failedInvoices = 1
  /\ \E k \in 1..Len(allErrors) : allErrors[k].hasInvoiceId

StatusRank(status) ==
  CASE status = "PENDING" -> 0
    [] status = "PROCESSING" -> 1
    [] status \in {"COMPLETED", "FAILED"} -> 2

\* C4: in every step, the error paths included, the status of every job
\* moves forward along PENDING -> PROCESSING -> {COMPLETED | FAILED} or
\* stays, and a status of COMPLETED or FAILED is never replaced by another.
C4_StatusForwardOnly ==
  [][ /\ Len(jobs') >= Len(jobs)
      /\ \A j \in 1..Len(jobs) :
           /\ StatusRank(jobs[j].status) <= StatusRank(jobs'[j].status)
           /\ StatusRank(jobs[j].status) = 2 => jobs'[j].status = jobs[j].status ]_vars

\* A first job marked FAILED by the error path, a second one COMPLETED.
C4_Witness ==
  /\ Len(jobs) = 2
  /\ jobs[1].status = "FAILED"
  /\ jobs[1].errorMessage.kind = "error"
  /\ jobs[2].status = "COMPLETED"

\* C5: a job update is issued exactly once per created job: never while a
\* row creation is in flight or a row is still to be dispatched, never a
\* second time, and once by the time the run has ended.
C5_OneUpdateAfterAllBatches ==
  /\ \A j \in 1..Len(updateCalls) : updateCalls[j] <= 1
  /\ (job # 0 /\ updateCalls[job] = 1) => \A k \in 1..Len(rowState) : Settled(k)
  /\ RunEnded => updateCalls[job] = 1

\* A run of more than one batch has returned with its one update issued.
C5_Witness ==
  /\ pc = "returned"
  /\ Len(invoiceData) > batchSize
  /\ updateCalls[job] = 1

\* The rows that have failed so far.
FailedRows == {k \in 1..Len(rowState) : rowState[k] = "failed"}

\* C6: the failure counter always equals the number of failure entries,
\* which are one per failed row; and when the batch loop has ended every
\* row of the file has been attempted, whatever failed before it.
C6_FailuresCountedNeverAbort ==
  /\ failedCount = Len(allErrors)
  /\ failedCount = Cardinality(FailedRows)
  /\ \A k \in FailedRows : Cardinality({m \in 1..Len(allErrors) : allErrors[m].row = k}) = 1
  /\ pc \in {"awaitUpdate", "returned"} =>
       /\ Len(rowState) = Len(selection[index + 1].rows)
       /\ \A k \in 1..Len(rowState) : Settled(k)
       /\ successfulCount + failedCount = Len(rowState)

\* A row of the first batch failed validation, another failed in its
\* create call, and the row of the second batch was created all the same.
C6_Witness ==
  /\ pc = "awaitUpdate"
  /\ Len(rowState) > batchSize
  /\ rowState[1] = "failed"
  /\ rowState[2] = "failed"
  /\ ~invoiceData[1].isValid
  /\ invoiceData[2].isValid
  /\ rowState[batchSize + 1] = "created"

\* C7: when the final job update settles, failed or not, processInvoiceFile
\* returns normally with the file at 100% and issues no further update; and
\* when it has returned, handleFileSelect goes on to the next file.
C7_UpdateFailureNotPropagated ==
  [][ /\ (pc = "awaitUpdate" /\ pc' # "awaitUpdate") =>
           /\ pc' = "returned"
           /\ ~uploadProgress'[index + 1].isProcessing
           /\ uploadProgress'[index + 1].processingProgress = 100
           /\ updateCalls' = updateCalls
      /\ (pc = "returned" /\ pc' # "returned") =>
           /\ index' = index + 1
           /\ hpc' = (IF index + 1 < Len(selection) THEN "uploading" ELSE "cleanup")
           /\ updateCalls' = updateCalls ]_vars

\* The first file's final update failed (its job is still PROCESSING, one
\* update issued, progress 100%) and the second file is being uploaded.
C7_Witness ==
  /\ hpc = "uploading"
  /\ index = 1
  /\ Len(jobs) = 1
  /\ jobs[1].status = "PROCESSING"
  /\ updateCalls[1] = 1
  /\ uploadProgress[1].processingProgress = 100


(***************************************************************************)
(* Further properties of the Row Validator (checked under VSpec)           *)
(***************************************************************************)

\* C11: validateInvoiceData never raises: for every raw row, rows with
\* missing fields and rows with cells that are not text included, the call
\* ends by returning a record.
C11_NeverRaises == vpc = "done" => ~vout.threw

\* A call that has ended on a row whose product cell is a number while its
\* currency cell is a text: nothing was returned, a TypeError was raised.
C11_Witness ==
  /\ vpc = "done"
  /\ vrow.product.t = "number"
  /\ vrow.currency.t = "string"
  /\ vout.threw


(***************************************************************************)
(* handleDeleteFile: the cascade delete of an uploaded file                *)
(***************************************************************************)

\* The most records the job of a file to delete holds.
MaxRecords == 3

\* `user-files/${identityId}/invoices/${invoiceId}/${timestamp}-${name}`
PdfPathOf(id) == <<"user-files", id[1], <<"i", "n", "v", "o", "i", "c", "e", "s", "/">> \o NatToText(id[2])>>

\* InvoiceUploadJob.list({ filter: { s3Key: { eq: path } } }): the ids of
\* the jobs in the store with that key, in id order.
JobsWithKey(path) ==
  SelectSeq([k \in 1..Len(jobs) |-> k],
            LAMBDA k : k \notin jobsDeleted /\ jobs[k].s3Key = path)

\* Invoice.list({ filter: { uploadJobId: { eq: jobId } } }): the records of
\* the job in the store, here in row order.
RECURSIVE RecordsInOrder(_, _)
RecordsInOrder(records, k) ==
  IF records = {} THEN <<>>
  ELSE LET here == {r \in records : r.id[2] = k}
       IN (IF here = {} THEN <<>> ELSE <<CHOOSE r \in here : TRUE>>)
            \o RecordsInOrder(records \ here, k + 1)

InvoicesOfJob(jobId) == RecordsInOrder({r \in invoices : r.uploadJobId = jobId}, 1)

\* The PDF stage is skipped.
NoPdfs(records) == <<>>

\* associatedInvoices.filter(invoice => invoice.pdfS3Key)
invoicesWithPdfs(records) == SelectSeq(records, LAMBDA r : r.pdfS3Key # NoPath)

\* One delete operation, as the history keeps it.
DeleteOp(op, jobId, row, path) == [op |-> op, job |-> jobId, row |-> row, path |-> path]

\* `Failed to delete ${invoiceFailed} out of ${associatedInvoices.length} invoices`
MsgDeleteFailed(invoiceFailed, total) ==
  "Failed to delete " \o ToString(invoiceFailed) \o " out of " \o ToString(total)
    \o " invoices"

\* `Failed to delete file and associated data: ${err.message}`
DeleteErrorText(message) == "Failed to delete file and associated data: " \o message

\* The catch and finally blocks of handleDeleteFile.
DeleteCatch(message) ==
  /\ error' = DeleteErrorText(message)
  /\ deletingFiles' = deletingFiles \ {filePath}
  /\ dpc' = "idle"

\* The locals of a handleDeleteFile call are kept as they were.
DeleteLocalsUnchanged == UNCHANGED <<filePath, associatedJobs, jobIndex, associatedInvoices,
                                     pdfIndex, deletion>>


\* The job the loop of handleDeleteFile is at.
CurrentJob == associatedJobs[jobIndex]

\* await InvoiceUploadJob.delete({ id: job.id }) is issued.
IssueJobDelete(jobId) ==
  /\ ops' = Append(ops, DeleteOp("deleteJob", jobId, 0, NoPath))
  /\ dpc' = "deleteJob"

\* The record stage of one job: every Invoice.delete is issued at once by
\* associatedInvoices.map, or, without records, the job delete follows.
DeleteRecords(jobId, records) ==
  IF Len(records) > 0
  THEN /\ deletion' = [k \in 1..Len(records) |-> "inflight"]
       /\ ops' = ops \o [k \in 1..Len(records) |->
                           DeleteOp("deleteInvoice", jobId, records[k].id[2], NoPath)]
       /\ dpc' = "awaitDeletes"
  ELSE /\ deletion' = <<>>
       /\ IssueJobDelete(jobId)

\* The loop over invoicesWithPdfs from position from: the next remove is
\* issued, or the record stage begins.
PdfLoopFrom(jobId, records, from) ==
  LET pdfs == invoicesWithPdfs(records)
  IN /\ pdfIndex' = from
     /\ IF from <= Len(pdfs)
        THEN /\ ops' = Append(ops, DeleteOp("removePdf", jobId, pdfs[from].id[2],
                                            pdfs[from].pdfS3Key))
             /\ dpc' = "removePdf"
             /\ deletion' = <<>>
        ELSE DeleteRecords(jobId, records)

\* The loop over associatedJobs from position from: the job's records are
\* listed, or, after the last job, the remove of the file is issued.
JobLoopFrom(ids, from) ==
  /\ jobIndex' = from
  /\ IF from <= Len(ids)
     THEN /\ dpc' = "listInvoices"
          /\ UNCHANGED ops
     ELSE /\ ops' = Append(ops, DeleteOp("removeFile", 0, 0, filePath))
          /\ dpc' = "removeFile"
  /\ UNCHANGED <<associatedInvoices, pdfIndex, deletion>>

\* The user asks for a stored file to be deleted and answers the
\* confirmation dialog; on "yes" the jobs of the path are looked up.
HandleDeleteFile(path, confirmed) ==
  /\ dpc = "idle"
  /\ path \in objects
  /\ IsInvoiceFileName(path[3])
  /\ IF confirmed
     THEN /\ deletingFiles' = deletingFiles \cup {path}
          /\ error' = Null
          /\ filePath' = path
          /\ dpc' = "listJobs"
          /\ associatedJobs' = <<>>
          /\ jobIndex' = 0
          /\ associatedInvoices' = <<>>
          /\ pdfIndex' = 0
          /\ deletion' = <<>>
          /\ ops' = <<>>
     ELSE UNCHANGED <<deletingFiles, error, filePath, dpc, associatedJobs, jobIndex,
                      associatedInvoices, pdfIndex, deletion, ops>>
  /\ UNCHANGED <<wvars, dateRolls, vvars, selection, hpc, index, uploadProgress, storevars,
                 pvars, faults, jobsDeleted>>

\* InvoiceUploadJob.list settles.
JobsListSettles(outcome) ==
  /\ dpc = "listJobs"
  /\ Outcome(outcome)
  /\ IF outcome = "ok"
     THEN /\ associatedJobs' = JobsWithKey(filePath)
          /\ JobLoopFrom(JobsWithKey(filePath), 1)
          /\ UNCHANGED <<error, deletingFiles, filePath>>
     ELSE /\ DeleteCatch(IF outcome = "errors"
                         THEN "Failed to find associated processing job"
                         ELSE "list threw")
          /\ UNCHANGED ops
          /\ DeleteLocalsUnchanged
  /\ UNCHANGED <<wvars, dateRolls, vvars, selection, hpc, index, uploadProgress, storevars,
                 pvars, jobsDeleted>>

\* Invoice.list settles for the current job: the PDFs are removed first.
InvoicesListSettles(outcome) ==
  /\ dpc = "listInvoices"
  /\ Outcome(outcome)
  /\ IF outcome = "ok"
     THEN /\ associatedInvoices' = InvoicesOfJob(CurrentJob)
          /\ PdfLoopFrom(CurrentJob, InvoicesOfJob(CurrentJob), 1)
          /\ UNCHANGED <<error, deletingFiles, filePath, associatedJobs, jobIndex>>
     ELSE /\ DeleteCatch(IF outcome = "errors"
                         THEN "Failed to find associated invoices"
                         ELSE "list threw")
          /\ UNCHANGED ops
          /\ DeleteLocalsUnchanged
  /\ UNCHANGED <<wvars, dateRolls, vvars, selection, hpc, index, uploadProgress, storevars,
                 pvars, jobsDeleted>>


\* remove({ path: invoice.pdfS3Key }) settles; a failure is logged only.
PdfRemoveSettles(outcome) ==
  /\ dpc = "removePdf"
  /\ Outcome(outcome)
  /\ objects' = IF outcome = "ok"
                THEN objects \ {invoicesWithPdfs(associatedInvoices)[pdfIndex].pdfS3Key}
                ELSE objects
  /\ PdfLoopFrom(CurrentJob, associatedInvoices, pdfIndex + 1)
  /\ UNCHANGED <<wvars, dateRolls, vvars, hvars, jobs, invoices, pvars, jobsDeleted,
                 deletingFiles, filePath, associatedJobs, jobIndex, associatedInvoices>>

\* The Invoice.delete of the k-th associated record settles: its promise is
\* fulfilled, or rejected when the result has errors or the call threw.
InvoiceDeleteSettles(k, outcome) ==
  /\ dpc = "awaitDeletes"
  /\ k \in 1..Len(deletion)
  /\ deletion[k] = "inflight"
  /\ Outcome(outcome)
  /\ invoices' = IF outcome = "ok"
                 THEN {r \in invoices : r.id # associatedInvoices[k].id}
                 ELSE invoices
  /\ deletion' = [deletion EXCEPT ![k] = IF outcome = "ok" THEN "fulfilled" ELSE "rejected"]
  /\ UNCHANGED <<wvars, dateRolls, vvars, hvars, objects, jobs, pvars, jobsDeleted,
                 deletingFiles, dpc, filePath, associatedJobs, jobIndex,
                 associatedInvoices, pdfIndex, ops>>

\* invoiceResults.filter(result => result.status === 'rejected').length
invoiceFailed(promises) ==
  Cardinality({k \in 1..Len(promises) : promises[k] = "rejected"})

\* A failed record deletion is passed over.
IgnoreFailedDeletions == FALSE

\* A failed record deletion ends the cascade.
AbortOnFailedDeletions == TRUE

\* await Promise.allSettled(invoiceDeletionPromises) resumes: with a failed
\* deletion the cascade ends in the catch block, else the job is deleted.
DeletionsAllSettled ==
  /\ dpc = "awaitDeletes"
  /\ \A k \in 1..Len(deletion) : deletion[k] # "inflight"
  /\ IF invoiceFailed(deletion) > 0 /\ AbortOnFailedDeletions
     THEN /\ DeleteCatch(MsgDeleteFailed(invoiceFailed(deletion), Len(associatedInvoices)))
          /\ UNCHANGED ops
     ELSE /\ IssueJobDelete(CurrentJob)
          /\ UNCHANGED <<error, deletingFiles>>
  /\ UNCHANGED <<wvars, dateRolls, vvars, selection, hpc, index, uploadProgress, storevars,
                 pvars, faults, jobsDeleted>>
  /\ DeleteLocalsUnchanged

\* InvoiceUploadJob.delete settles: on to the next job, or to the file.
JobDeleteSettles(outcome) ==
  /\ dpc = "deleteJob"
  /\ Outcome(outcome)
  /\ IF outcome = "ok"
     THEN /\ jobsDeleted' = jobsDeleted \cup {CurrentJob}
          /\ JobLoopFrom(associatedJobs, jobIndex + 1)
          /\ UNCHANGED <<error, deletingFiles, filePath, associatedJobs>>
     ELSE /\ DeleteCatch(IF outcome = "errors"
                         THEN "Failed to delete processing job"
                         ELSE "delete threw")
          /\ UNCHANGED <<ops, jobsDeleted>>
          /\ DeleteLocalsUnchanged
  /\ UNCHANGED <<wvars, dateRolls, vvars, selection, hpc, index, uploadProgress, storevars,
                 pvars>>

\* remove({ path: filePath }) settles; on success loadFiles is awaited.
FileRemoveSettles(outcome) ==
  /\ dpc = "removeFile"
  /\ Outcome(outcome)
  /\ IF outcome = "ok"
     THEN /\ objects' = objects \ {filePath}
          /\ dpc' = "loadFiles"
          /\ UNCHANGED <<error, deletingFiles>>
     ELSE /\ DeleteCatch("remove failed")
          /\ UNCHANGED objects
  /\ UNCHANGED <<wvars, dateRolls, vvars, selection, hpc, index, uploadProgress, jobs, invoices,
                 pvars, jobsDeleted, ops>>
  /\ DeleteLocalsUnchanged

\* await loadFiles() resumes (loadFiles catches its own failure and sets
\* the error); with a job found the error is cleared, then finally runs.
DeleteLoadFilesSettles(outcome) ==
  /\ dpc = "loadFiles"
  /\ Outcome(outcome)
  /\ error' = IF Len(associatedJobs) > 0 \/ outcome = "ok"
              THEN Null
              ELSE "Failed to load files"
  /\ deletingFiles' = deletingFiles \ {filePath}
  /\ dpc' = "idle"
  /\ UNCHANGED <<wvars, dateRolls, vvars, selection, hpc, index, uploadProgress, storevars,
                 pvars, jobsDeleted, ops>>
  /\ DeleteLocalsUnchanged


(***************************************************************************)
(* The cascade delete on its own: the store after earlier imports          *)
(***************************************************************************)

\* A job as a finished import left it.
StoredJob(idx, name, rows) ==
  [NewJob(name, FileTypeOf(name), PathOf(idx, name)) EXCEPT
     !.status = "COMPLETED", !.totalInvoices = rows, !.successfulInvoices = rows,
     !.processingCompletedAt = TRUE]

\* A record of job jobId as the import wrote it, with or without the key
\* handlePdfUpload's Invoice.update sets once a PDF is stored.
StoredRecord(jobId, row, hasPdf) ==
  [InvoiceRecord(jobId, row, validateInvoiceData(ValidRow, row + 1).invoice) EXCEPT
     !.pdfS3Key = IF hasPdf THEN PdfPathOf(<<jobId, row>>) ELSE NoPath]

PdfObjects(records) == {r.pdfS3Key : r \in {q \in records : q.pdfS3Key # NoPath}}

\* The first file was uploaded, with or without a job (a job whose creation
\* failed leaves only the bytes), with its first rows stored as records
\* and some of these carrying a PDF; a second imported file may be there.
DInit ==
  /\ dateRolls = FALSE
  /\ vrow = ValidRow
  /\ vrowNumber = 2
  /\ vout = Thrown
  /\ vpc = "off"
  /\ selection = <<>>
  /\ hpc = "off"
  /\ index = 0
  /\ error = Null
  /\ uploadProgress = <<>>
  /\ \E hasJob, second \in BOOLEAN :
       \E rows \in {1..n : n \in 0..MaxRecords} :
         \E pdfs \in SUBSET rows :
           LET first == {StoredRecord(1, k, k \in pdfs) : k \in rows}
               other == IF second THEN {StoredRecord(2, 1, TRUE)} ELSE {}
           IN /\ (~hasJob => rows = {} /\ ~second)
              /\ jobs = (IF hasJob THEN <<StoredJob(0, T_a_csv, Cardinality(rows))>> ELSE <<>>)
                          \o (IF second THEN <<StoredJob(1, T_b_xlsx, 1)>> ELSE <<>>)
              /\ invoices = first \cup other
              /\ objects = {PathOf(0, T_a_csv)} \cup PdfObjects(first \cup other)
                             \cup (IF second THEN {PathOf(1, T_b_xlsx)} ELSE {})
  /\ pc = "idle"
  /\ job = 0
  /\ invoiceData = <<>>
  /\ i = 0
  /\ successfulCount = 0
  /\ failedCount = 0
  /\ allErrors = <<>>
  /\ rowState = <<>>
  /\ updateData = NoUpdate
  /\ updateCalls = [k \in 1..Len(jobs) |-> 1]
  /\ faults = 0
  /\ DeleteIdle
  /\ ViewersIdle

DNext ==
  \/ \E path \in objects, confirmed \in BOOLEAN : HandleDeleteFile(path, confirmed)
  \/ \E outcome \in CallOutcomes : JobsListSettles(outcome)
  \/ \E outcome \in CallOutcomes : InvoicesListSettles(outcome)
  \/ \E outcome \in TransferOutcomes : PdfRemoveSettles(outcome)
  \/ \E k \in 1..MaxRecords, outcome \in CallOutcomes : InvoiceDeleteSettles(k, outcome)
  \/ DeletionsAllSettled
  \/ \E outcome \in CallOutcomes : JobDeleteSettles(outcome)
  \/ \E outcome \in TransferOutcomes : FileRemoveSettles(outcome)
  \/ \E outcome \in TransferOutcomes : DeleteLoadFilesSettles(outcome)

DSpec == DInit /\ [][DNext]_vars


(***************************************************************************)
(* Properties of the cascade delete                                        *)
(***************************************************************************)

IsPrefix(s, t) == Len(s) <= Len(t) /\ \A k \in 1..Len(s) : s[k] = t[k]

CountOps(history, op) == Cardinality({k \in 1..Len(history) : history[k].op = op})

\* The records of the listed job that carry a PDF, in list order.
ListedPdfs == SelectSeq(associatedInvoices, LAMBDA r : r.pdfS3Key # NoPath)

\* The job of the file (a stored path is the key of at most one job).
ListedJob == associatedJobs[Len(associatedJobs)]

\* The delete operations of a whole cascade for the file of the call: per
\* PDF one remove, per record one delete, the job, the file.
CascadeOps ==
  IF Len(associatedJobs) = 0
  THEN <<DeleteOp("removeFile", 0, 0, filePath)>>
  ELSE [k \in 1..Len(ListedPdfs) |->
          DeleteOp("removePdf", ListedJob, ListedPdfs[k].id[2], ListedPdfs[k].pdfS3Key)]
       \o [k \in 1..Len(associatedInvoices) |->
             DeleteOp("deleteInvoice", ListedJob, associatedInvoices[k].id[2], NoPath)]
       \o <<DeleteOp("deleteJob", ListedJob, 0, NoPath),
            DeleteOp("removeFile", 0, 0, filePath)>>

\* C12: a cascade delete issues its operations in the order PDF removes,
\* record deletes, job delete, file remove: at every stage the operations
\* issued so far are a prefix of that sequence for the records listed (all
\* the records the store holds for the job), and once the file remove is
\* issued they are the whole of it, p PDF removes, r record deletes, one job
\* delete and one file remove, whatever the PDF removes answered.
C12_CascadeOrder ==
  /\ dpc \in {"removePdf", "awaitDeletes", "deleteJob", "removeFile", "loadFiles"}
       => IsPrefix(ops, CascadeOps)
  /\ dpc = "removePdf"
       => /\ {associatedInvoices[k] : k \in 1..Len(associatedInvoices)}
               = {r \in invoices : r.uploadJobId = ListedJob}
          /\ Len(ops) = pdfIndex
  /\ dpc \in {"removeFile", "loadFiles"}
       => /\ ops = CascadeOps
          /\ Len(associatedJobs) > 0
               => /\ CountOps(ops, "removePdf") = Len(ListedPdfs)
                  /\ CountOps(ops, "deleteInvoice") = Len(associatedInvoices)
                  /\ CountOps(ops, "deleteJob") = 1
                  /\ CountOps(ops, "removeFile") = 1

\* A cascade over three records, two of them with a PDF, ran to its end
\* although the remove of a PDF failed and left the object.
C12_Witness ==
  /\ dpc = "loadFiles"
  /\ Len(associatedInvoices) = 3
  /\ Len(ListedPdfs) = 2
  /\ ListedPdfs[1].pdfS3Key \in objects
  /\ ListedPdfs[2].pdfS3Key \notin objects
  /\ Len(ops) = 7

\* C13: when a record deletion of a cascade failed, the cascade ended
\* there: the job is still stored, so is the file, no job delete and no
\* file remove was issued, and the error shown tells how many of the
\* deletions failed.
C13_FailedDeletionStops ==
  (/\ dpc = "idle"
   /\ filePath # NoPath
   /\ invoiceFailed(deletion) > 0)
    => /\ ListedJob \notin jobsDeleted
       /\ jobIndex = Len(associatedJobs)
       /\ filePath \in objects
       /\ CountOps(ops, "deleteJob") = 0
       /\ CountOps(ops, "removeFile") = 0
       /\ error = DeleteErrorText(MsgDeleteFailed(invoiceFailed(deletion),
                                                  Len(associatedInvoices)))

\* Two of three record deletions failed, the third record is gone.
C13_Witness ==
  /\ dpc = "idle"
  /\ Len(deletion) = 3
  /\ invoiceFailed(deletion) = 2
  /\ Cardinality({r \in invoices : r.uploadJobId = ListedJob}) = 2
  /\ error = DeleteErrorText("Failed to delete 2 out of 3 invoices")


(***************************************************************************)
(* Properties of handleFileSelect                                          *)
(***************************************************************************)

S_xls == <<".", "x", "l", "s">>

\* The name ends in .csv, .xlsx or .xls, in either case of letters.
OnAllowlist(name) ==
  \/ endsWith(toLowerCase(name), S_csv)
  \/ endsWith(toLowerCase(name), S_xlsx)
  \/ endsWith(toLowerCase(name), S_xls)

SelectionRejected ==
  /\ hpc = "done"
  /\ pc = "idle"
  /\ uploadProgress = <<>>
  /\ objects = {}
  /\ jobs = <<>>
  /\ invoices = {}
  /\ error \in {"Please select CSV or Excel files containing invoice data",
                "Only CSV and Excel files are supported for invoice processing"}

\* C14: once handleFileSelect has run on a selection holding a file whose
\* name ends in none of .csv, .xlsx and .xls, the whole selection is
\* rejected: nothing is uploaded, no job and no record exists, the progress
\* list is empty and one of the two rejection messages is shown.
C14_MixedSelectionRejected ==
  (/\ hpc \notin {"select", "off"}
   /\ \E k \in 1..Len(selection) : ~OnAllowlist(selection[k].name))
    => SelectionRejected

\* A .csv file with rows selected together with a .pdf file was rejected.
C14_Witness ==
  /\ hpc = "done"
  /\ Len(selection) = 2
  /\ selection[1].name = T_a_csv
  /\ Len(selection[1].rows) > 0
  /\ selection[2].name = T_d_pdf
  /\ error = "Only CSV and Excel files are supported for invoice processing"
  /\ objects = {}

\* C15: once handleFileSelect has run on a selection of one file or more,
\* all named .csv, .xlsx or .xls, the selection is accepted: every file has
\* its item in the progress list and no rejection message is shown.
C15_AllowlistAccepted ==
  (/\ hpc \notin {"select", "off"}
   /\ Len(selection) > 0
   /\ \A k \in 1..Len(selection) : OnAllowlist(selection[k].name))
    => /\ Len(uploadProgress) = Len(selection)
       /\ ~SelectionRejected

\* A selection of the one file c.xls was rejected.
C15_Witness ==
  /\ selection = <<[name |-> T_c_xls, rows |-> <<>>]>>
  /\ SelectionRejected
  /\ error = "Please select CSV or Excel files containing invoice data"


\* C16: the files of a selection are handled one after another.  While
\* the loop of handleFileSelect is at a file, every earlier file is through
\* with its upload and its import, no later file has begun (its progress
\* item is as initialised and no object of it is stored), the import under
\* way is the one of the file the loop is at, and no import step is in
\* flight while an upload is.
C16_OneFileAtATime ==
  /\ pc # "idle" => hpc = "processing"
  /\ hpc = "uploading" => /\ rowState = <<>>
                          /\ job = 0
  /\ hpc \in {"uploading", "processing"} =>
       /\ \A k \in 1..Len(uploadProgress) :
            /\ k < index + 1 => /\ ~uploadProgress[k].isUploading
                                /\ ~uploadProgress[k].isProcessing
            /\ k > index + 1 => uploadProgress[k] = InitialProgressItem(selection[k])
       /\ objects \subseteq {PathOf(k - 1, selection[k].name) : k \in 1..(index + 1)}
       /\ \A k \in 1..Len(jobs) :
            IF k = job
            THEN jobs[k].s3Key = PathOf(index, selection[index + 1].name)
            ELSE /\ jobs[k].s3Key[2] < index
                 /\ updateCalls[k] <= 1

\* The second file is being uploaded after the first was imported whole,
\* its job updated to its final status.
C16_Witness ==
  /\ hpc = "uploading"
  /\ index = 1
  /\ Len(jobs) = 1
  /\ jobs[1].status = "COMPLETED"
  /\ Cardinality(invoices) = 2
  /\ uploadProgress[2].progress = 50


\* The text the progress list shows for an item:
\* item.isUploading ? `Upload: ...` : item.isProcessing ? `Processing: ...`
\* : '✅ Complete'
ProgressLabel(item) ==
  IF item.isUploading THEN "Upload"
  ELSE IF item.isProcessing THEN "Processing"
  ELSE "Complete"

\* The loop is past the k-th file and no object of it is stored: its
\* upload failed.
UploadFailed(k) ==
  /\ k \in 1..Len(uploadProgress)
  /\ k < index + 1 \/ hpc \in {"cleanup", "done"}
  /\ PathOf(k - 1, selection[k].name) \notin objects

\* No job and no record exists for the k-th file, and the loop went on.
UploadFailureContained(k) ==
  /\ \A j \in 1..Len(jobs) : jobs[j].s3Key # PathOf(k - 1, selection[k].name)
  /\ \A r \in invoices : jobs[r.uploadJobId].s3Key # PathOf(k - 1, selection[k].name)
  /\ hpc \in {"cleanup", "done"} => index = Len(selection)

\* C17: when the upload of a file of a selection failed, no job and no
\* record exists for that file, the loop went on to the files after it, and
\* the failure is shown for that file: an error message is set or the
\* file's progress item does not read Complete.
C17_UploadFailureReported ==
  \A k \in 1..Len(selection) :
    UploadFailed(k) =>
      /\ UploadFailureContained(k)
      /\ error # Null \/ ProgressLabel(uploadProgress[k]) # "Complete"

\* The first file's upload failed and the second file was imported; the
\* first file's item reads Complete, at 0 percent, and no error is set.
C17_Witness ==
  /\ hpc = "done"
  /\ Len(selection) = 2
  /\ UploadFailed(1)
  /\ UploadFailureContained(1)
  /\ ~UploadFailed(2)
  /\ Len(jobs) = 1
  /\ jobs[1].status = "COMPLETED"
  /\ Cardinality(invoices) = 2
  /\ ProgressLabel(uploadProgress[1]) = "Complete"
  /\ uploadProgress[1].progress = 0
  /\ error = Null

\* The part of C17 that holds: a failed upload leaves no job and no record
\* and does not end the loop.
UploadFailureContainedAlways ==
  \A k \in 1..Len(selection) : UploadFailed(k) => UploadFailureContained(k)


(***************************************************************************)
(* End to end: one CSV file of three rows, one with an invalid currency    *)
(***************************************************************************)

\* handleFileSelect is through with a selection of one CSV file of three
\* rows, exactly one of them with an invalid currency and nothing else
\* wrong, and no call to the storage or the database failed.
ThreeRowScenario ==
  /\ hpc = "done"
  /\ faults = 0
  /\ Len(selection) = 1
  /\ IsInvoiceFileName(selection[1].name)
  /\ FileTypeOf(selection[1].name) = "CSV"
  /\ Len(selection[1].rows) = 3
  /\ Cardinality({k \in 1..3 : selection[1].rows[k] = BadCurrencyRow}) = 1
  /\ \A k \in 1..3 : selection[1].rows[k] \in {ValidRow, BadCurrencyRow}

\* The position of the row with the invalid currency.
BadRowAt == CHOOSE k \in 1..3 : selection[1].rows[k] = BadCurrencyRow

BatchFairness ==
  /\ WF_vars(\E k \in 1..MaxRows, outcome \in CallOutcomes : CreateSettles(k, outcome))
  /\ WF_vars(AllSettledResolves)

FairSpec == Init /\ [][Next]_vars /\ BatchFairness

\* Row k of the file under import has not been dispatched.
NotDispatched(rs, k) == k > Len(rs) \/ rs[k] = "idle"

\* While a batch is awaited the loop is at a multiple of batchSize below
\* the number of rows, and the rows dispatched so far are the first ones up
\* to the end of the batch's slice; when the final update is issued the loop
\* has made ceil(n / batchSize) rounds and every row was dispatched.
BatchShape ==
  /\ pc = "awaitBatch" =>
       /\ i % batchSize = 0
       /\ i < Len(invoiceData)
       /\ \A k \in 1..Len(invoiceData) :
            ~NotDispatched(rowState, k) <=> k <= Min(i + batchSize, Len(invoiceData))
  /\ pc = "awaitUpdate" =>
       /\ i = CeilDiv(Len(invoiceData), batchSize) * batchSize
       /\ \A k \in 1..Len(invoiceData) : ~NotDispatched(rowState, k)

\* The loop index moves by batchSize, from an awaited batch only, and a row
\* is dispatched in the step that moves the index to its slice, and once.
BatchStep ==
  /\ i' # i => \/ i' = 0
               \/ pc = "awaitBatch" /\ i' = i + batchSize
  /\ \A k \in 1..Len(rowState') :
       /\ (NotDispatched(rowState, k) /\ ~NotDispatched(rowState', k))
            => /\ k \in (i' + 1)..Min(i' + batchSize, Len(rowState'))
               /\ i' = 0 \/ i' # i
       /\ (~NotDispatched(rowState, k) /\ pc' \notin {"idle", "createJob"})
            => ~NotDispatched(rowState', k)

\* C19: the rows of a file are dispatched in ceil(n / batchSize) batches,
\* consecutive slices of batchSize rows in row order, the last one possibly
\* shorter, every row in exactly one of them, none for a file without rows,
\* and an awaited batch always leads on to the end of the loop, where the
\* final update is issued.
C19_BatchesSliceAndEnd ==
  /\ []BatchShape
  /\ [][BatchStep]_vars
  /\ (pc = "awaitBatch") ~> (pc = "awaitUpdate")

\* Three rows went out in two batches and the loop has ended.
C19_Witness ==
  /\ pc = "awaitUpdate"
  /\ Len(invoiceData) = 3
  /\ i = 2 * batchSize
  /\ \A k \in 1..3 : rowState[k] \in {"created", "failed"}


(***************************************************************************)
(* The counts of a job                                                     *)
(***************************************************************************)

JobCounts(j) == <<j.totalInvoices, j.successfulInvoices, j.failedInvoices>>

\* C20: the counts of a job are written only by the update that gives the
\* job its final status: the create call names no counts, a stored job's
\* counts change only in the step that takes it from PROCESSING to
\* COMPLETED or FAILED, and every such step is an update that carries the
\* counts.
C20_CountsOnlyWithFinalStatus ==
  [][/\ Len(jobs') > Len(jobs) => ~CreateNamesCounts
     /\ \A k \in 1..Len(jobs) :
          /\ JobCounts(jobs'[k]) # JobCounts(jobs[k])
               => /\ jobs[k].status = "PROCESSING"
                  /\ jobs'[k].status \in {"COMPLETED", "FAILED"}
          /\ (jobs[k].status = "PROCESSING" /\ jobs'[k].status \in {"COMPLETED", "FAILED"})
               => /\ updateData.id = k
                  /\ updateData.hasCounts
                  /\ JobCounts(jobs'[k]) = JobCounts(updateData)]_vars

\* The job of a file of two rows or more was marked FAILED by the catch
\* block's update, which carries no counts: they are the zeros of creation.
C20_Witness ==
  /\ pc = "threw"
  /\ job # 0
  /\ jobs[job].status = "FAILED"
  /\ ~updateData.hasCounts
  /\ Len(selection[index + 1].rows) >= 2
  /\ JobCounts(jobs[job]) = <<0, 0, 0>>


(***************************************************************************)
(* The amount rule of the Row Validator (checked under VSpec)              *)
(***************************************************************************)

\* x is a finite number greater than zero.
FinitePositive(x) == x.k = "fin" /\ ~x.neg /\ x.num > 0

\* C23: a returned record has no amount error exactly when the raw amount
\* parses as a finite number greater than zero; then the record's amount is
\* the parsed number, and otherwise the amount error of the row is listed
\* and the record's amount is 0.
C23_AmountFinitePositive ==
  Returns =>
    LET parsed == parseFloat(vrow.amount)
        rejected == RowMsg(vrowNumber, MsgAmount) \in Range(vout.invoice.validationErrors)
    IN /\ ~rejected <=> FinitePositive(parsed)
       /\ ~rejected => vout.invoice.amount = parsed
       /\ rejected => vout.invoice.amount = Zero

\* The amount text Infinity was accepted and is the record's amount, in a
\* record that is valid.
C23_Witness ==
  /\ Returns
  /\ vrow.amount = Str(S_Infinity)
  /\ vout.invoice.isValid
  /\ vout.invoice.amount = Infinity(FALSE)

\* The part of C23 that holds: zero, negative and non-numeric amounts are
\* rejected with the amount error and amount 0, and every accepted amount
\* is the parsed number, which is greater than zero.
AmountPositiveOrRejected ==
  Returns =>
    LET parsed == parseFloat(vrow.amount)
        rejected == RowMsg(vrowNumber, MsgAmount) \in Range(vout.invoice.validationErrors)
    IN /\ rejected <=> (isNaN(parsed) \/ LeqZero(parsed))
       /\ ~rejected => vout.invoice.amount = parsed
       /\ rejected => vout.invoice.amount = Zero


(***************************************************************************)
(* Only valid rows are written                                             *)
(***************************************************************************)

\* C26: every record in the store is valid and has no validation errors,
\* and a row that failed validation is never in flight to Invoice.create
\* nor created: it is marked failed when its batch is dispatched and has
\* its entry in allErrors.
C26_OnlyValidRowsWritten ==
  /\ \A r \in invoices : r.isValid /\ r.validationErrors = <<>>
  /\ \A k \in 1..Len(rowState) :
       ~invoiceData[k].isValid =>
         /\ rowState[k] \in {"idle", "failed"}
         /\ \A r \in invoices : r.id # <<job, k>>
         /\ rowState[k] = "failed" =>
              \E e \in 1..Len(allErrors) :
                /\ allErrors[e].row = k
                /\ allErrors[e].errors = invoiceData[k].validationErrors

\* The first row of a file is stored as a valid record while the second,
\* which failed validation, is counted as failed and has no record.
C26_Witness ==
  /\ pc = "awaitUpdate"
  /\ Len(invoiceData) >= 2
  /\ invoiceData[1].isValid
  /\ ~invoiceData[2].isValid
  /\ rowState[1] = "created"
  /\ rowState[2] = "failed"
  /\ {r.id : r \in invoices} = {<<job, 1>>}
  /\ failedCount = 1


(***************************************************************************)
(* Row numbers of failure entries                                          *)
(***************************************************************************)

\* C28: the row number of every failure entry is the row number its
\* validation messages carry, in allErrors and in the sample of a stored
\* error summary.
C28_RowNumbersAgree ==
  /\ \A e \in 1..Len(allErrors) :
       \A m \in Range(allErrors[e].errors) :
         m[1] = "Row" => m[2] = allErrors[e].row
  /\ \A k \in 1..Len(jobs) :
       \A p \in 1..Len(jobs[k].errorMessage.sample) :
         LET entry == jobs[k].errorMessage.sample[p]
         IN entry[2][1] = "Row" => entry[2][2] = entry[1]

\* The stored summary of a job reads "Row 1: Row 2: Invalid currency ...":
\* the entry of the first data row holds 1, its message says 2.
C28_Witness ==
  /\ Len(jobs) >= 1
  /\ jobs[1].errorMessage.kind = "summary"
  /\ jobs[1].errorMessage.sample[1] = <<1, RowMsg(2, MsgCurrency)>>

\* What holds instead: the entry of a row that failed validation holds the
\* row's position among the data rows, one less than its messages carry.
RowNumbersOffByOne ==
  \A e \in 1..Len(allErrors) :
    \A m \in Range(allErrors[e].errors) :
      m[1] = "Row" => m[2] = allErrors[e].row + 1


(***************************************************************************)
(* An import and cascade deletes side by side                              *)
(***************************************************************************)

\* One file of valid rows is selected; an earlier import may have left a
\* file with its job, one record and that record's PDF.  The import and
\* the cascade delete of a stored file interleave freely (the file list
\* may be loaded, and a file deleted, while processInvoiceFile is at one
\* of its awaits).
CInit ==
  /\ dateRolls = FALSE
  /\ vrow = ValidRow
  /\ vrowNumber = 2
  /\ vout = Thrown
  /\ vpc = "off"
  /\ selection \in {sel \in Selections :
                      /\ Len(sel) = 1
                      /\ sel[1].name = T_a_csv
                      /\ \A k \in 1..Len(sel[1].rows) : sel[1].rows[k] = ValidRow}
  /\ hpc = "select"
  /\ index = 0
  /\ error = Null
  /\ uploadProgress = <<>>
  /\ \E earlier \in BOOLEAN :
       /\ jobs = IF earlier THEN <<StoredJob(1, T_b_xlsx, 1)>> ELSE <<>>
       /\ invoices = IF earlier THEN {StoredRecord(1, 1, TRUE)} ELSE {}
       /\ objects = IF earlier THEN {PathOf(1, T_b_xlsx), PdfPathOf(<<1, 1>>)} ELSE {}
  /\ pc = "idle"
  /\ job = 0
  /\ invoiceData = <<>>
  /\ i = 0
  /\ successfulCount = 0
  /\ failedCount = 0
  /\ allErrors = <<>>
  /\ rowState = <<>>
  /\ updateData = NoUpdate
  /\ updateCalls = [k \in 1..Len(jobs) |-> 1]
  /\ faults = 0
  /\ DeleteIdle
  /\ ViewersIdle

CNext == Next \/ DNext

CSpec == CInit /\ [][CNext]_vars

\* C24: every record in the store references a job that exists, and no
\* record of a deleted job is in flight to Invoice.create.
C24_RecordsReferenceJobs ==
  /\ \A r \in invoices : r.uploadJobId \notin jobsDeleted
  /\ \A k \in 1..Len(rowState) : rowState[k] = "inflight" => job \notin jobsDeleted

\* No call failed: the file was deleted while its second batch was still
\* to come; the cascade removed one record, the job and the file, and the
\* import went on to write a record for the deleted job.
C24_Witness ==
  /\ faults = 0
  /\ hpc = "done"
  /\ dpc = "idle"
  /\ error = Null
  /\ \E r \in invoices :
       /\ r.uploadJobId \in jobsDeleted
       /\ jobs[r.uploadJobId].s3Key \notin objects


(***************************************************************************)
(* Attaching and detaching a record's PDF                                  *)
(***************************************************************************)

\* The uploads of one run of the viewer.
MaxAttach == 2

S_invoices == <<"i", "n", "v", "o", "i", "c", "e", "s", "/">>

\* `user-files/{identityId}/invoices/${invoiceId}/${timestamp}-${name}`
PdfPathAt(id, t) ==
  <<"user-files", id[1], S_invoices \o NatToText(id[2]) \o <<"/">> \o NatToText(t)>>

\* The PDF cell of a record offers the upload when the record is valid and
\* has no pdfS3Key, and offers the delete button when it has one.
OffersPdfUpload(r) == r.isValid /\ r.pdfS3Key = NoPath

OffersPdfDelete(r) == r.isValid /\ r.pdfS3Key # NoPath

\* The record with the given id, as the update call finds it.
RecordsWithId(id) == {r \in invoices : r.id = id}

\* handlePdfUpload(invoiceId, file) up to its uploadData call; a file
\* whose type is not a PDF's is refused with an alert.
HandlePdfUpload(id, isPdf) ==
  /\ ppc = "idle"
  /\ timestamp <= MaxAttach
  /\ \E r \in RecordsWithId(id) : OffersPdfUpload(r)
  /\ IF isPdf
     THEN /\ uploadingPdfs' = uploadingPdfs \cup {id}
          /\ pdfKey' = PdfPathAt(id, timestamp)
          /\ timestamp' = timestamp + 1
          /\ ppc' = "uploadData"
     ELSE UNCHANGED <<uploadingPdfs, pdfKey, timestamp, ppc>>
  /\ UNCHANGED <<exceptA, deletingPdfs, dateRolls, vvars, hvars, storevars, pvars, faults, dvars>>

\* uploadData(...).result settles; a failure goes to the catch block (an
\* alert) and the finally block.
PdfUploadSettles(outcome) ==
  /\ ppc = "uploadData"
  /\ Outcome(outcome)
  /\ IF outcome = "ok"
     THEN /\ objects' = objects \cup {pdfKey}
          /\ ppc' = "update"
          /\ UNCHANGED <<uploadingPdfs, pdfKey>>
     ELSE /\ ppc' = "idle"
          /\ uploadingPdfs' = {}
          /\ pdfKey' = NoPath
          /\ UNCHANGED objects
  /\ UNCHANGED <<exceptA, deletingPdfs, timestamp, dateRolls, vvars, hvars, jobs, invoices, pvars, dvars>>

\* Invoice.update({id, pdfS3Key: uploadResult.path, ...}) settles; errors,
\* a missing record or a throw go to the catch block, and the object
\* stays where uploadData put it.
PdfUpdateSettles(outcome) ==
  /\ ppc = "update"
  /\ Outcome(outcome)
  /\ invoices' = IF outcome = "ok"
                 THEN {IF r.id \in uploadingPdfs THEN [r EXCEPT !.pdfS3Key = pdfKey] ELSE r :
                         r \in invoices}
                 ELSE invoices
  /\ ppc' = "idle"
  /\ uploadingPdfs' = {}
  /\ pdfKey' = NoPath
  /\ UNCHANGED <<exceptA, deletingPdfs, timestamp, dateRolls, vvars, hvars, objects, jobs, pvars, dvars>>

\* handlePdfDelete(invoice) up to its Invoice.update call.
HandlePdfDelete(id, confirmed) ==
  /\ ppc = "idle"
  /\ \E r \in RecordsWithId(id) : OffersPdfDelete(r)
  /\ IF confirmed
     THEN /\ deletingPdfs' = deletingPdfs \cup {id}
          /\ ppc' = "detach"
     ELSE UNCHANGED <<deletingPdfs, ppc>>
  /\ UNCHANGED <<exceptA, uploadingPdfs, pdfKey, timestamp, dateRolls, vvars, hvars, storevars,
                 pvars, faults, dvars>>

\* Invoice.update({id, pdfS3Key: null, ...}) settles.  The object is left
\* in storage ("We don't delete from S3 immediately for data safety").
PdfDetachSettles(outcome) ==
  /\ ppc = "detach"
  /\ Outcome(outcome)
  /\ invoices' = IF outcome = "ok"
                 THEN {IF r.id \in deletingPdfs THEN [r EXCEPT !.pdfS3Key = NoPath] ELSE r :
                         r \in invoices}
                 ELSE invoices
  /\ ppc' = "idle"
  /\ deletingPdfs' = {}
  /\ UNCHANGED <<exceptA, uploadingPdfs, pdfKey, timestamp, dateRolls, vvars, hvars, objects, jobs,
                 pvars, dvars>>

\* One imported file with its job and its first records, none with a PDF.
PInit ==
  /\ dateRolls = FALSE
  /\ vrow = ValidRow
  /\ vrowNumber = 2
  /\ vout = Thrown
  /\ vpc = "off"
  /\ selection = <<>>
  /\ hpc = "off"
  /\ index = 0
  /\ error = Null
  /\ uploadProgress = <<>>
  /\ \E n \in 1..MaxRecords :
       /\ jobs = <<StoredJob(0, T_a_csv, n)>>
       /\ invoices = {StoredRecord(1, k, FALSE) : k \in 1..n}
  /\ objects = {PathOf(0, T_a_csv)}
  /\ pc = "idle"
  /\ job = 0
  /\ invoiceData = <<>>
  /\ i = 0
  /\ successfulCount = 0
  /\ failedCount = 0
  /\ allErrors = <<>>
  /\ rowState = <<>>
  /\ updateData = NoUpdate
  /\ updateCalls = <<1>>
  /\ faults = 0
  /\ DeleteIdle
  /\ ViewersIdle

\* PDFs are attached and detached, one call at a time, and then the file
\* is deleted: a cascade starts when no PDF call is under way, and a PDF
\* call when no cascade is.
PNext ==
  \/ \E id \in {r.id : r \in invoices}, isPdf \in BOOLEAN :
       dpc = "idle" /\ HandlePdfUpload(id, isPdf)
  \/ \E outcome \in TransferOutcomes : PdfUploadSettles(outcome)
  \/ \E outcome \in CallOutcomes : PdfUpdateSettles(outcome)
  \/ \E id \in {r.id : r \in invoices}, confirmed \in BOOLEAN :
       dpc = "idle" /\ HandlePdfDelete(id, confirmed)
  \/ \E outcome \in CallOutcomes : PdfDetachSettles(outcome)
  \/ \E path \in objects, confirmed \in BOOLEAN :
       ppc = "idle" /\ HandleDeleteFile(path, confirmed)
  \/ \E outcome \in CallOutcomes : JobsListSettles(outcome)
  \/ \E outcome \in CallOutcomes : InvoicesListSettles(outcome)
  \/ \E outcome \in TransferOutcomes : PdfRemoveSettles(outcome)
  \/ \E k \in 1..MaxRecords, outcome \in CallOutcomes : InvoiceDeleteSettles(k, outcome)
  \/ DeletionsAllSettled
  \/ \E outcome \in CallOutcomes : JobDeleteSettles(outcome)
  \/ \E outcome \in TransferOutcomes : FileRemoveSettles(outcome)
  \/ \E outcome \in TransferOutcomes : DeleteLoadFilesSettles(outcome)

PSpec == PInit /\ [][PNext]_vars

\* The objects stored for a PDF of a record of job j.
PdfObjectsOfJob(j) == {o \in objects : o[2] = j /\ startsWith(o[3], S_invoices)}

\* The cascade for job j ran to its end: job deleted, file removed.
CascadeSucceeded(j) == j \in jobsDeleted /\ jobs[j].s3Key \notin objects

\* C27: after a successful cascade delete of a file, no PDF object
\* uploaded for a record of its job is left in storage.
C27_NoPdfLeftAfterCascade ==
  \A j \in 1..Len(jobs) : CascadeSucceeded(j) => PdfObjectsOfJob(j) = {}

\* No call failed: a PDF was attached to the first record and detached
\* again, then the file was deleted; the cascade found no pdfS3Key and
\* issued no remove for the PDF, which is still stored.
C27_Witness ==
  /\ faults = 0
  /\ dpc = "idle"
  /\ ppc = "idle"
  /\ CascadeSucceeded(1)
  /\ invoices = {}
  /\ \A p \in 1..Len(ops) : ops[p].op # "removePdf"
  /\ PdfPathAt(<<1, 1>>, 1) \in objects

\* What does hold: a PDF left after a successful cascade is one no record
\* named when the cascade listed the records, or one whose remove failed.
PdfLeftWasDetachedOrFailed ==
  \A j \in 1..Len(jobs) :
    (CascadeSucceeded(j) /\ faults = 0 /\ dpc = "idle") =>
      \A o \in PdfObjectsOfJob(j) : \A p \in 1..Len(ops) : ops[p].path # o


(***************************************************************************)
(* The totals of the invoice viewer and of the dashboard                   *)
(***************************************************************************)

\* Every record of the list is counted and summed.
keepAll(list) == list

\* invoices.filter(inv => inv.isValid)
validInvoices(list) == {r \in list : r.isValid}

\* invoices.filter(inv => !inv.isValid)
invalidInvoices(list) == {r \in list : ~r.isValid}

\* InvoiceViewer: useMemo(() => {...}, [invoices])
ViewerAnalytics(list) ==
  [ totalInvoices |-> Cardinality(list),
    validInvoices |-> Cardinality(validInvoices(list)),
    invalidInvoices |-> Cardinality(invalidInvoices(list)),
    totalAmount |-> SumAmounts(validInvoices(list)) ]

\* DashboardPage: useMemo(() => {...}), the part on the working records
DashboardAnalytics(list) ==
  [ totalActiveInvoices |-> Cardinality(list),
    validActiveInvoices |-> Cardinality(validInvoices(list)),
    invalidActiveInvoices |-> Cardinality(invalidInvoices(list)),
    activeInvoicesValue |-> SumAmounts(validInvoices(list)) ]

\* The invoice viewer is handed the records (Invoice.list resolved or the
\* live query delivered) and renders.
ViewerSetInvoices ==
  /\ viewerInvoices' = invoices
  /\ analytics' = ViewerAnalytics(invoices)
  /\ UNCHANGED <<dashboardInvoices, dashboardAnalytics, exceptM, dateRolls, vvars, hvars,
                 storevars, pvars, faults, dvars>>

\* The dashboard is handed the records and renders.
DashboardSetInvoices ==
  /\ dashboardInvoices' = invoices
  /\ dashboardAnalytics' = DashboardAnalytics(invoices)
  /\ UNCHANGED <<viewerInvoices, analytics, exceptM, dateRolls, vvars, hvars,
                 storevars, pvars, faults, dvars>>

TwoFiftyRow == [ValidRow EXCEPT !.amount = Num(250)]

BadDateRow == [ValidRow EXCEPT !.amount = Str(T_0_01), !.issue_date = Str(T_2024_3_1)]

BadAmountRow == [ValidRow EXCEPT !.amount = Str(T_minus5)]

\* Records as a store may hold them: valid ones, and ones with isValid
\* false (the schema allows them) with and without an amount.
SampleRecords ==
  { InvoiceRecord(1, 1, validateInvoiceData(ValidRow, 2).invoice),
    InvoiceRecord(1, 2, validateInvoiceData(TwoFiftyRow, 3).invoice),
    InvoiceRecord(1, 3, validateInvoiceData(BadCurrencyRow, 4).invoice),
    InvoiceRecord(1, 4, validateInvoiceData(BadDateRow, 5).invoice),
    InvoiceRecord(1, 5, validateInvoiceData(BadAmountRow, 6).invoice) }

AInit ==
  /\ dateRolls = FALSE
  /\ vrow = ValidRow
  /\ vrowNumber = 2
  /\ vout = Thrown
  /\ vpc = "off"
  /\ selection = <<>>
  /\ hpc = "off"
  /\ index = 0
  /\ error = Null
  /\ uploadProgress = <<>>
  /\ jobs = <<StoredJob(0, T_a_csv, 5)>>
  /\ invoices \in SUBSET SampleRecords
  /\ objects = {PathOf(0, T_a_csv)}
  /\ pc = "idle"
  /\ job = 0
  /\ invoiceData = <<>>
  /\ i = 0
  /\ successfulCount = 0
  /\ failedCount = 0
  /\ allErrors = <<>>
  /\ rowState = <<>>
  /\ updateData = NoUpdate
  /\ updateCalls = <<1>>
  /\ faults = 0
  /\ DeleteIdle
  /\ ViewersIdle

\* The viewers load and render; PDFs are attached to and detached from the
\* records the invoice viewer shows.
ANext ==
  \/ ViewerSetInvoices
  \/ DashboardSetInvoices
  \/ \E id \in {r.id : r \in viewerInvoices}, isPdf \in BOOLEAN : HandlePdfUpload(id, isPdf)
  \/ \E outcome \in TransferOutcomes : PdfUploadSettles(outcome)
  \/ \E outcome \in CallOutcomes : PdfUpdateSettles(outcome)
  \/ \E id \in {r.id : r \in viewerInvoices}, confirmed \in BOOLEAN : HandlePdfDelete(id, confirmed)
  \/ \E outcome \in CallOutcomes : PdfDetachSettles(outcome)

ASpec == AInit /\ [][ANext]_vars

\* C21: a record with isValid false adds nothing to the total amount the
\* invoice viewer and the dashboard display (the totals are those of the
\* list without it), and no PDF upload is ever started for it.
C21_InvalidRecordsLeftOut ==
  /\ \A r \in viewerInvoices :
       ~r.isValid =>
         analytics.totalAmount = ViewerAnalytics(viewerInvoices \ {r}).totalAmount
  /\ \A r \in dashboardInvoices :
       ~r.isValid =>
         dashboardAnalytics.activeInvoicesValue =
           DashboardAnalytics(dashboardInvoices \ {r}).activeInvoicesValue
  /\ analytics.totalAmount = SumAmounts({r \in viewerInvoices : r.isValid = TRUE})
  /\ dashboardAnalytics.activeInvoicesValue =
       SumAmounts({r \in dashboardInvoices : r.isValid = TRUE})
  /\ \A r \in invoices :
       ~r.isValid =>
         /\ r.id \notin uploadingPdfs
         /\ r.pdfS3Key = NoPath
         /\ \A t \in 1..MaxAttach : PdfPathAt(r.id, t) \notin objects

\* Both viewers show a list with a valid record and an invalid record
\* that has an amount; a PDF was attached to the valid one.
C21_Witness ==
  /\ \E r \in viewerInvoices : ~r.isValid /\ r.amount # Zero
  /\ \E r \in viewerInvoices : r.isValid /\ r.pdfS3Key # NoPath
  /\ dashboardInvoices = viewerInvoices
  /\ analytics.invalidInvoices > 0
  /\ analytics.totalAmount # Zero
  /\ timestamp > MaxAttach


(***************************************************************************)
(* The refresh notification                                                *)
(***************************************************************************)

\* A component mounts: its effects run.  Both components store their
\* callback in the one property window.refreshInvoiceViewer, and both
\* start their first load.
Mount(c) ==
  /\ c \in Components \ mounted
  /\ mounted' = mounted \cup {c}
  /\ refreshInvoiceViewer' = c
  /\ refetching' = refetching \cup {c}
  /\ UNCHANGED <<exceptR, dateRolls, vvars, hvars, storevars, pvars, faults, dvars>>

\* A component unmounts: its cleanup deletes the property, whichever
\* component's callback it holds.  Timers already set stay set.  The state
\* of an unmounted InvoiceViewer is gone; it starts from useState([]).
Unmount(c) ==
  /\ c \in mounted
  /\ mounted' = mounted \ {c}
  /\ refreshInvoiceViewer' = NoCallback
  /\ IF c = "InvoiceViewer"
     THEN /\ viewerInvoices' = {}
          /\ analytics' = ViewerAnalytics({})
     ELSE UNCHANGED <<viewerInvoices, analytics>>
  /\ UNCHANGED <<refetching, dashboardInvoices, dashboardAnalytics, exceptMR, dateRolls, vvars,
                 hvars, storevars, pvars, faults, dvars>>

\* A scheduled fetch of component c runs: InvoiceViewer sets its list from
\* Invoice.list (nothing is set once it has unmounted), UploadStore runs
\* loadFiles.
Refetch(c) ==
  /\ c \in refetching
  /\ refetching' = refetching \ {c}
  /\ IF c = "InvoiceViewer" /\ c \in mounted
     THEN /\ viewerInvoices' = invoices
          /\ analytics' = ViewerAnalytics(invoices)
     ELSE UNCHANGED <<viewerInvoices, analytics>>
  /\ UNCHANGED <<mounted, refreshInvoiceViewer, dashboardInvoices, dashboardAnalytics, exceptMR,
                 dateRolls, vvars, hvars, storevars, pvars, faults, dvars>>

\* Nothing is mounted yet; one file of valid rows will be selected.
RInit ==
  /\ dateRolls = FALSE
  /\ vrow = ValidRow
  /\ vrowNumber = 2
  /\ vout = Thrown
  /\ vpc = "off"
  /\ selection \in {sel \in Selections :
                      /\ Len(sel) = 1
                      /\ sel[1].name = T_a_csv
                      /\ Len(sel[1].rows) = 1
                      /\ sel[1].rows[1] = ValidRow}
  /\ hpc = "select"
  /\ index = 0
  /\ error = Null
  /\ uploadProgress = <<>>
  /\ objects = {}
  /\ jobs = <<>>
  /\ invoices = {}
  /\ pc = "idle"
  /\ job = 0
  /\ invoiceData = <<>>
  /\ i = 0
  /\ successfulCount = 0
  /\ failedCount = 0
  /\ allErrors = <<>>
  /\ rowState = <<>>
  /\ updateData = NoUpdate
  /\ updateCalls = <<>>
  /\ faults = 0
  /\ DeleteIdle
  /\ PdfIdle
  /\ AnalyticsIdle
  /\ RestIdle
  /\ mounted = {}
  /\ refreshInvoiceViewer = NoCallback
  /\ refetching = {}

\* The components mount and unmount in any order while a selection made
\* in a mounted UploadStore is imported.
RNext ==
  \/ \E c \in Components : Mount(c)
  \/ \E c \in Components : Unmount(c)
  \/ \E c \in Components : Refetch(c)
  \/ "UploadStore" \in mounted /\ HandleFileSelect
  \/ UploadProgressEvent
  \/ \E outcome \in TransferOutcomes : UploadSettles(outcome)
  \/ \E outcome \in CallOutcomes : JobCreateSettles(outcome)
  \/ \E outcome \in TransferOutcomes : DownloadSettles(outcome)
  \/ \E k \in 1..MaxRows, outcome \in CallOutcomes : CreateSettles(k, outcome)
  \/ AllSettledResolves
  \/ \E outcome \in CallOutcomes : UpdateSettles(outcome)
  \/ \E outcome \in CallOutcomes : FailedUpdateSettles(outcome)
  \/ ProcessReturned
  \/ ProcessThrew
  \/ CleanupDone

RSpec == RInit /\ [][RNext]_vars

\* The importer's two notifications: after a file's import (the await of
\* processInvoiceFile resumes normally) and after the whole selection.
FileImportNotified == hpc = "processing" /\ pc = "returned" /\ pc' = "idle"

SelectionNotified == hpc = "cleanup" /\ hpc' = "done"

\* C22: at each of the two notifications every mounted viewer has its
\* re-fetch scheduled, whatever the order in which the components mounted
\* and unmounted.
C22_EveryMountedViewerRefetches ==
  [][(FileImportNotified \/ SelectionNotified) => mounted \subseteq refetching']_vars

\* InvoiceViewer mounted before UploadStore, so the window holds
\* UploadStore's callback; the import has ended without a failed call, and
\* only UploadStore has a fetch scheduled.
C22_Witness ==
  /\ faults = 0
  /\ hpc = "done"
  /\ mounted = Components
  /\ refreshInvoiceViewer = "UploadStore"
  /\ refetching = {"UploadStore"}
  /\ invoices # {}
  /\ viewerInvoices = {}

\* What does hold: the notifications always schedule the file list's
\* loadFiles, and the re-fetch of the component whose callback the window
\* holds.
NotificationReachesCallbackOwner ==
  [][(FileImportNotified \/ SelectionNotified) =>
       /\ "UploadStore" \in refetching'
       /\ refreshInvoiceViewer # NoCallback => refreshInvoiceViewer \in refetching']_vars


(***************************************************************************)
(* The viewers' data-loading effect                                        *)
(***************************************************************************)

Viewers == {"InvoiceViewer", "SubmittedInvoicesViewer"}

\* A record of the SubmittedInvoice table, made from row `row` of job jobId.
SubmittedRecord(jobId, row) == [id |-> <<jobId, row>>, originalUploadJobId |-> jobId]

\* The list the viewer shows.
ShownList == IF viewer = "InvoiceViewer" THEN viewerInvoices ELSE submittedInvoices

\* setInvoices(data) / setSubmittedInvoices(data) with the table's
\* records, when apply holds.
SetShownList(apply) ==
  /\ viewerInvoices' = IF apply /\ viewer = "InvoiceViewer" THEN invoices ELSE viewerInvoices
  /\ analytics' = IF apply /\ viewer = "InvoiceViewer"
                  THEN ViewerAnalytics(invoices) ELSE analytics
  /\ submittedInvoices' = IF apply /\ viewer = "SubmittedInvoicesViewer"
                          THEN submitted ELSE submittedInvoices
  /\ UNCHANGED <<dashboardInvoices, dashboardAnalytics, submitted>>

\* The effect runs: isMounted = true, subscription unset.  InvoiceViewer
\* puts setupDataLoading on a timer of 100 ms; SubmittedInvoicesViewer
\* calls it at once, up to its await of list().
EffectRuns ==
  /\ epc = "none"
  /\ isMounted' = TRUE
  /\ subscription' = "null"
  /\ epc' = IF viewer = "InvoiceViewer" THEN "timer" ELSE "list"
  /\ UNCHANGED <<viewer, mvars, bvars, exceptMSB, dateRolls, vvars, hvars, storevars, pvars,
                 faults, dvars>>

\* The timer fires: setupDataLoading runs up to its await of list().
SetupTimerFires ==
  /\ epc = "timer"
  /\ epc' = "list"
  /\ UNCHANGED <<viewer, isMounted, subscription, mvars, bvars, exceptMSB, dateRolls, vvars,
                 hvars, storevars, pvars, faults, dvars>>

\* await list() settles.  A throw goes to the catch block.  Otherwise the
\* data is applied if isMounted and the result has no errors, and then
\* observeQuery().subscribe(...) is called and its result assigned to
\* subscription.
InitialListSettles(outcome) ==
  /\ epc = "list"
  /\ Outcome(outcome)
  /\ IF outcome = "throws"
     THEN /\ epc' = "failed"
          /\ SetShownList(FALSE)
          /\ UNCHANGED subscription
     ELSE /\ epc' = "subscribed"
          /\ SetShownList(isMounted /\ outcome = "ok")
          /\ subscription' = "open"
  /\ UNCHANGED <<viewer, isMounted, exceptMSB, dateRolls, vvars, hvars, storevars, pvars, dvars>>

\* The live query delivers the table's records to the next callback of an
\* open subscription: they are applied if isMounted.
SubscriptionDelivers ==
  /\ subscription = "open"
  /\ SetShownList(isMounted)
  /\ UNCHANGED <<svars, exceptMSB, dateRolls, vvars, hvars, storevars, pvars, faults, dvars>>

\* The effect's cleanup: isMounted = false, the timer is cleared, and the
\* subscription is unsubscribed if the variable holds one.
EffectCleanup ==
  /\ epc # "none"
  /\ isMounted
  /\ isMounted' = FALSE
  /\ epc' = IF epc = "timer" THEN "cancelled" ELSE epc
  /\ subscription' = IF subscription = "open" THEN "closed" ELSE subscription
  /\ UNCHANGED <<viewer, mvars, bvars, exceptMSB, dateRolls, vvars, hvars, storevars, pvars,
                 faults, dvars>>

\* Either viewer, over tables of up to two records.
EInit ==
  /\ dateRolls = FALSE
  /\ vrow = ValidRow
  /\ vrowNumber = 2
  /\ vout = Thrown
  /\ vpc = "off"
  /\ selection = <<>>
  /\ hpc = "off"
  /\ index = 0
  /\ error = Null
  /\ uploadProgress = <<>>
  /\ jobs = <<StoredJob(0, T_a_csv, 2)>>
  /\ invoices \in SUBSET {StoredRecord(1, 1, FALSE), StoredRecord(1, 2, FALSE)}
  /\ objects = {PathOf(0, T_a_csv)}
  /\ pc = "idle"
  /\ job = 0
  /\ invoiceData = <<>>
  /\ i = 0
  /\ successfulCount = 0
  /\ failedCount = 0
  /\ allErrors = <<>>
  /\ rowState = <<>>
  /\ updateData = NoUpdate
  /\ updateCalls = <<1>>
  /\ faults = 0
  /\ DeleteIdle
  /\ PdfIdle
  /\ AnalyticsIdle
  /\ PageMounted
  /\ PagesIdle
  /\ FilesIdle
  /\ viewer \in Viewers
  /\ epc = "none"
  /\ isMounted = FALSE
  /\ subscription = "null"
  /\ submitted \in SUBSET {SubmittedRecord(1, 3), SubmittedRecord(1, 4)}
  /\ submittedInvoices = {}

ENext ==
  \/ EffectRuns
  \/ SetupTimerFires
  \/ \E outcome \in CallOutcomes : InitialListSettles(outcome)
  \/ SubscriptionDelivers
  \/ EffectCleanup

ESpec == EInit /\ [][ENext]_vars

\* The effect was cleaned up.
CleanedUp == epc # "none" /\ ~isMounted

\* C25: once the effect is cleaned up, no subscription it created is
\* open and no result is applied to the viewer's list any more.
C25_CleanupEndsSubscription ==
  /\ [](CleanedUp => subscription # "open")
  /\ [][CleanedUp => (viewerInvoices' = viewerInvoices /\ submittedInvoices' = submittedInvoices)]_vars

\* No call failed: the cleanup ran while list() was pending, when the
\* variable held no subscription; list() then resolved and the effect
\* subscribed.  Nothing was applied, and the subscription stays open.
C25_Witness ==
  /\ faults = 0
  /\ CleanedUp
  /\ epc = "subscribed"
  /\ subscription = "open"
  /\ ShownList = {}
  /\ (invoices # {} /\ submitted # {})

\* What does hold: no result is applied after the cleanup, and a
\* subscription that was open when the cleanup ran is closed by it.
NothingAppliedAfterCleanup ==
  [][/\ CleanedUp => (viewerInvoices' = viewerInvoices /\ submittedInvoices' = submittedInvoices)
     /\ (isMounted /\ ~isMounted' /\ subscription = "open") => subscription' = "closed"]_vars


(***************************************************************************)
(* Pagination                                                              *)
(***************************************************************************)

\* The pages a run turns to.
MaxPage == 4

\* const itemsPerPage = 20 (InvoiceViewer), 25 (SubmittedInvoicesViewer)
itemsPerPage(v) == IF v = "InvoiceViewer" THEN 20 ELSE 25

\* Math.ceil(sortedInvoices.length / itemsPerPage)
totalPages == (sortedLength + itemsPerPage(viewer) - 1) \div itemsPerPage(viewer)

\* Three of the viewer's sortable fields: its first sort field and two more.
SortableFields(v) ==
  IF v = "InvoiceViewer" THEN {"issueDate", "amount", "invoiceId"}
  ELSE {"submittedAt", "amount", "invoiceId"}

\* The lengths of the lists loaded: none, one page and less, two pages
\* and a bit, three pages.
ListLengths(v) == {0, 1, itemsPerPage(v), 2 * itemsPerPage(v) + 1, 3 * itemsPerPage(v)}

\* The "Previous" button: rendered when totalPages > 1, disabled on page 1.
PreviousPage ==
  /\ totalPages > 1
  /\ currentPage # 1
  /\ currentPage' = currentPage - 1
  /\ UNCHANGED <<sortedLength, sortBy, sortDirection, exceptG, dateRolls, vvars, hvars,
                 storevars, pvars, faults, dvars>>

\* The "Next" button: rendered when totalPages > 1, disabled when
\* currentPage === totalPages.
NextPage ==
  /\ totalPages > 1
  /\ currentPage # totalPages
  /\ currentPage < MaxPage
  /\ currentPage' = currentPage + 1
  /\ UNCHANGED <<sortedLength, sortBy, sortDirection, exceptG, dateRolls, vvars, hvars,
                 storevars, pvars, faults, dvars>>

\* handleSort(field)
handleSort(field) ==
  /\ IF sortBy = field
     THEN /\ sortDirection' = IF sortDirection = "asc" THEN "desc" ELSE "asc"
          /\ UNCHANGED sortBy
     ELSE /\ sortBy' = field
          /\ sortDirection' = "desc"
  /\ currentPage' = 1
  /\ UNCHANGED <<sortedLength, exceptG, dateRolls, vvars, hvars, storevars, pvars, faults,
                 dvars>>

\* The loaded list changes to one of n records (a refresh, a subscription
\* update, records deleted or submitted): setInvoices(data) and nothing
\* else.
ListChanges(n) ==
  /\ n # sortedLength
  /\ sortedLength' = n
  /\ UNCHANGED <<currentPage, sortBy, sortDirection, exceptG, dateRolls, vvars, hvars,
                 storevars, pvars, faults, dvars>>

\* Either viewer before its first load.
GInit ==
  /\ dateRolls = FALSE
  /\ vrow = ValidRow
  /\ vrowNumber = 2
  /\ vout = Thrown
  /\ vpc = "off"
  /\ selection = <<>>
  /\ hpc = "off"
  /\ index = 0
  /\ error = Null
  /\ uploadProgress = <<>>
  /\ jobs = <<>>
  /\ invoices = {}
  /\ objects = {}
  /\ pc = "idle"
  /\ job = 0
  /\ invoiceData = <<>>
  /\ i = 0
  /\ successfulCount = 0
  /\ failedCount = 0
  /\ allErrors = <<>>
  /\ rowState = <<>>
  /\ updateData = NoUpdate
  /\ updateCalls = <<>>
  /\ faults = 0
  /\ DeleteIdle
  /\ PdfIdle
  /\ AnalyticsIdle
  /\ PageMounted
  /\ SubmittedIdle
  /\ FilesIdle
  /\ viewer \in Viewers
  /\ epc = "none"
  /\ isMounted = FALSE
  /\ subscription = "null"
  /\ currentPage = 1
  /\ sortedLength = 0
  /\ sortBy = (IF viewer = "InvoiceViewer" THEN "issueDate" ELSE "submittedAt")
  /\ sortDirection = "desc"

GNext ==
  \/ PreviousPage
  \/ NextPage
  \/ \E field \in SortableFields(viewer) : handleSort(field)
  \/ \E n \in ListLengths(viewer) : ListChanges(n)

GSpec == GInit /\ [][GNext]_vars

\* max(1, totalPages)
LastPage == IF totalPages > 1 THEN totalPages ELSE 1

\* C30: the current page is always one of the pages the list has.
C30_CurrentPageInRange == 1 <= currentPage /\ currentPage <= LastPage

\* The viewer was on page 3 of 3 when the list shrank to one record: the
\* page is still 3, and the pagination controls are not rendered.
C30_Witness ==
  /\ currentPage = 3
  /\ sortedLength = 1
  /\ totalPages = 1

\* What does hold: the page never goes below 1, and sorting returns to
\* page 1.
PageAtLeastOne == currentPage >= 1


(***************************************************************************)
(* The file list: loadFiles and checkFileSessionStatus                     *)
(***************************************************************************)

\* 24 * 60 * 60 * 1000 ms, in hours
DayHours == 24

\* The hours a run lasts.
MaxHours == 72

\* new Date(now.getTime() - 24 * 60 * 60 * 1000)
job24HoursAgo == now - DayHours

\* The lookups of one checkFileSessionStatus call and how each settles.
Lookups == [jobs : CallOutcomes, invoices : CallOutcomes, submitted : CallOutcomes]

AllOk == [jobs |-> "ok", invoices |-> "ok", submitted |-> "ok"]

\* The lookups up to the first that throws are the ones issued.
FailedLookups(lk) ==
  IF lk.jobs # "ok" THEN 1
  ELSE (IF lk.invoices # "ok" THEN 1 ELSE 0)
         + (IF lk.invoices # "throws" /\ lk.submitted # "ok" THEN 1 ELSE 0)

\* The lookups a call does not get to are left at "ok".
Issued(path, lk) ==
  /\ (lk.jobs # "ok" \/ JobsWithKey(path) = <<>>) => (lk.invoices = "ok" /\ lk.submitted = "ok")
  /\ lk.invoices = "throws" => lk.submitted = "ok"

RECURSIVE SumFailed(_)
SumFailed(lks) ==
  IF DOMAIN lks = {} THEN 0
  ELSE LET p == CHOOSE q \in DOMAIN lks : TRUE
       IN FailedLookups(lks[p]) + SumFailed([q \in DOMAIN lks \ {p} |-> lks[q]])

PreviousSession ==
  [isCurrentSession |-> FALSE, hasActiveInvoices |-> FALSE, hasSubmittedInvoices |-> FALSE]

\* job.status === 'PROCESSING' || job.status === 'PENDING'
InProgress(status) == status \in {"PROCESSING", "PENDING"}

\* checkFileSessionStatus(filePath), its three lookups settling as lk says
checkFileSessionStatus(path, lk) ==
  IF lk.jobs # "ok" \/ JobsWithKey(path) = <<>> THEN PreviousSession
  ELSE IF lk.invoices = "throws" \/ lk.submitted = "throws" THEN PreviousSession
  ELSE LET id == JobsWithKey(path)[1]
           isRecentlyProcessed ==
             jobs[id].processingCompletedAt /\ jobTimes[id].completed > job24HoursAgo
           isRecentlyStarted == jobTimes[id].started > job24HoursAgo
           hasActiveInvoices == lk.invoices = "ok" /\ RecordsOf(id) # {}
           hasSubmittedInvoices ==
             lk.submitted = "ok" /\ {r \in submitted : r.originalUploadJobId = id} # {}
       IN [ isCurrentSession |->
              \/ hasActiveInvoices
              \/ (isRecentlyProcessed /\ ~hasSubmittedInvoices)
              \/ (isRecentlyStarted /\ ~hasSubmittedInvoices)
              \/ InProgress(jobs[id].status),
            hasActiveInvoices |-> hasActiveInvoices,
            hasSubmittedInvoices |-> hasSubmittedInvoices ]

\* currentSessionFiles.sort((a, b) => bDate - aDate): newest first, the
\* time stamp of a path standing for lastModified.
RECURSIVE NewestFirst(_)
NewestFirst(paths) ==
  IF paths = {} THEN <<>>
  ELSE LET newest == CHOOSE p \in paths : \A q \in paths : q[2] <= p[2]
       IN <<newest>> \o NewestFirst(paths \ {newest})

\* loadFiles up to its await of list(): setLoading(true), setError(null).
LoadFiles ==
  /\ lpc = "idle"
  /\ lpc' = "list"
  /\ error' = Null
  /\ UNCHANGED <<files, lookups, now, jobTimes, exceptL, dateRolls, vvars, selection, hpc,
                 index, uploadProgress, storevars, pvars, faults, dvars>>

\* list() settles and every file's checkFileSessionStatus with it; the
\* files classified as current session are set, newest first.  A list()
\* that fails leaves the files as they were and sets the error.
LoadFilesSettles(outcome, lks) ==
  /\ lpc = "list"
  /\ lpc' = "idle"
  /\ lookups' = lks
  /\ \A p \in objects : Issued(p, lks[p])
  /\ IF outcome = "ok"
     THEN /\ faults + SumFailed(lks) <= MaxFaults
          /\ faults' = faults + SumFailed(lks)
          /\ files' = NewestFirst({p \in objects : checkFileSessionStatus(p, lks[p]).isCurrentSession})
          /\ UNCHANGED error
     ELSE /\ lks = [p \in objects |-> AllOk]
          /\ Outcome(outcome)
          /\ error' = "Failed to load files"
          /\ UNCHANGED files
  /\ UNCHANGED <<now, jobTimes, exceptL, dateRolls, vvars, selection, hpc, index,
                 uploadProgress, storevars, pvars, dvars>>

\* Twelve hours pass.
Tick ==
  /\ now + 12 <= MaxHours
  /\ now' = now + 12
  /\ UNCHANGED <<files, lpc, lookups, jobTimes, exceptL, dateRolls, vvars, hvars, storevars, pvars,
                 faults, dvars>>


\* The stored file's job as another status, with or without a completion.
SessionJob(status, completed) ==
  [StoredJob(0, T_a_csv, 1) EXCEPT !.status = status, !.processingCompletedAt = completed]

\* One stored file, 48 hours into the run: with or without a job (and a
\* second job for the same path), the job of any status, started and
\* completed 36, 24 or 12 hours ago, with or without a working record
\* (and its PDF) and a submitted record.
LInit ==
  /\ dateRolls = FALSE
  /\ vrow = ValidRow
  /\ vrowNumber = 2
  /\ vout = Thrown
  /\ vpc = "off"
  /\ selection = <<>>
  /\ hpc = "off"
  /\ index = 0
  /\ error = Null
  /\ uploadProgress = <<>>
  /\ \E hasJob, twin, completed, working, sub \in BOOLEAN :
       \E status \in {"PROCESSING", "PENDING", "COMPLETED", "FAILED"} :
         \E started, ended \in {12, 24, 36} :
           /\ started <= ended
           /\ ~completed => ended = started
           /\ ~hasJob => (~twin /\ ~completed /\ ~working /\ ~sub
                            /\ status = "COMPLETED" /\ started = 12)
           /\ jobs = (IF hasJob THEN <<SessionJob(status, completed)>> ELSE <<>>)
                       \o (IF twin THEN <<SessionJob("PROCESSING", FALSE)>> ELSE <<>>)
           /\ jobTimes = (IF hasJob THEN <<[started |-> started, completed |-> ended]>> ELSE <<>>)
                           \o (IF twin THEN <<[started |-> 36, completed |-> 36]>> ELSE <<>>)
           /\ invoices = IF working THEN {StoredRecord(1, 1, TRUE)} ELSE {}
           /\ submitted = IF sub THEN {SubmittedRecord(1, 2)} ELSE {}
           /\ objects = {PathOf(0, T_a_csv)} \cup PdfObjects(invoices)
  /\ pc = "idle"
  /\ job = 0
  /\ invoiceData = <<>>
  /\ i = 0
  /\ successfulCount = 0
  /\ failedCount = 0
  /\ allErrors = <<>>
  /\ rowState = <<>>
  /\ updateData = NoUpdate
  /\ updateCalls = [k \in 1..Len(jobs) |-> 1]
  /\ faults = 0
  /\ DeleteIdle
  /\ PdfIdle
  /\ AnalyticsIdle
  /\ PageMounted
  /\ EffectIdle
  /\ PagesIdle
  /\ submittedInvoices = {}
  /\ files = <<>>
  /\ lpc = "idle"
  /\ lookups = <<>>
  /\ now = 48

LNext ==
  \/ LoadFiles
  \/ \E outcome \in TransferOutcomes, lks \in [objects -> Lookups] : LoadFilesSettles(outcome, lks)
  \/ Tick

LSpec == LInit /\ [][LNext]_vars

\* The classification as the store has it: the first job of the path has
\* a working record, or is in progress, or was started or completed less
\* than 24 hours ago and has no submitted record.
CurrentSessionFile(path) ==
  /\ JobsWithKey(path) # <<>>
  /\ LET id == JobsWithKey(path)[1]
         recent == \/ jobTimes[id].started > now - DayHours
                   \/ (jobs[id].processingCompletedAt /\ jobTimes[id].completed > now - DayHours)
     IN \/ \E r \in invoices : r.uploadJobId = id
        \/ jobs[id].status \in {"PROCESSING", "PENDING"}
        \/ (recent /\ ~\E r \in submitted : r.originalUploadJobId = id)

\* A loadFiles call has set the files.
FilesLoaded == lpc = "list" /\ lpc' = "idle" /\ error' = Null

Listed(fs, path) == \E k \in 1..Len(fs) : fs[k] = path

\* C29: a loadFiles call lists a stored file exactly when the file is a
\* current-session file and none of its lookups failed.
C29_ListedIffCurrentSession ==
  [][FilesLoaded =>
       \A p \in objects :
         Listed(files', p) <=> (FailedLookups(lookups'[p]) = 0 /\ CurrentSessionFile(p))]_vars

\* The file's job completed less than 24 hours ago, has no working
\* record and has a submitted record; the lookup of the submitted records
\* came back with errors, and the file is listed.
C29_Witness ==
  /\ lpc = "idle"
  /\ faults = 1
  /\ Len(jobs) = 1
  /\ jobs[1].status = "COMPLETED"
  /\ invoices = {}
  /\ submitted # {}
  /\ lookups = [p \in objects |-> [jobs |-> "ok", invoices |-> "ok", submitted |-> "errors"]]
  /\ ~CurrentSessionFile(PathOf(0, T_a_csv))
  /\ files = <<PathOf(0, T_a_csv)>>

\* What does hold: when no lookup fails the files listed are the
\* current-session files; a file without a job, a file whose job lookup
\* fails and a file one of whose lookups throws are not listed.
ListedIffCurrentWhenLookupsSucceed ==
  [][FilesLoaded =>
       \A p \in objects :
         /\ FailedLookups(lookups'[p]) = 0 => (Listed(files', p) <=> CurrentSessionFile(p))
         /\ JobsWithKey(p) = <<>> => ~Listed(files', p)
         /\ lookups'[p].jobs # "ok" => ~Listed(files', p)
         /\ (lookups'[p].invoices = "throws" \/ lookups'[p].submitted = "throws")
              => ~Listed(files', p)]_vars

====
